---------------------------- MODULE Spec2Model ----------------------------
(***************************************************************************)
(* A model of the ZNP coordination core: the tracked UTXO set, the UNiCORN *)
(* engine, the compute Raft state machine and the compute node dispatcher. *)
(* Every operator is translated from the Rust source under src/src; the    *)
(* name of the function it models is kept.                                  *)
(***************************************************************************)
EXTENDS Integers, Sequences, FiniteSets, TLC

VARIABLES
    utxo,       \* a TrackedUtxoSet on its own: [base, pk_cache]
    utxo_ops,   \* number of extend/remove calls made on utxo
    uni,        \* a Unicorn: [modulus, iterations, security_level, seed, witness]
    uni_res,    \* outcome of the last Unicorn::eval call
    uni_ver,    \* inputs and outcome of the last Unicorn::verify call
    rafts,      \* the ComputeRaft of every compute replica
    raft_log,   \* the commits of the Raft group, in commit order
    applied,    \* per replica: how many commits of raft_log it has processed
    snap_src,   \* the consensused state the last snapshot was serialized from
    node        \* the ComputeNode fields around replica 1's ComputeRaft

utxo_vars == <<utxo, utxo_ops>>
uni_vars == <<uni, uni_res, uni_ver>>
raft_vars == <<rafts, raft_log, applied, snap_src>>
vars == <<utxo, utxo_ops, uni, uni_res, uni_ver, rafts, raft_log, applied, snap_src, node>>

RaftVarsIdle == rafts = <<>> /\ raft_log = <<>> /\ applied = <<>> /\ snap_src = <<>>
NodeVarsIdle == node = <<>>

None == "None"
NoKey == "NoKey"

(***************************************************************************)
(* The transactions of the model.  A transaction is named by its hash (its *)
(* position in TxTable, so ascending hash order is ascending position); an *)
(* input names the outpoint it spends, an output carries its script public *)
(* key (NoKey for an output without one) and one token amount.             *)
(***************************************************************************)
TxTable == <<
    [ins |-> <<>>,                     outs |-> <<"A", "A">>, coinbase |-> FALSE, amount |-> 1],
    [ins |-> <<>>,                     outs |-> <<"B", NoKey>>, coinbase |-> FALSE, amount |-> 1],
    [ins |-> << <<1, 0>> >>,           outs |-> <<"B">>,      coinbase |-> FALSE, amount |-> 1],
    [ins |-> << <<1, 0>> >>,           outs |-> <<"A">>,      coinbase |-> FALSE, amount |-> 1],
    [ins |-> << <<1, 1>>, <<2, 0>> >>, outs |-> <<"A">>,      coinbase |-> FALSE, amount |-> 1],
    [ins |-> << <<9, 0>> >>,           outs |-> <<"B">>,      coinbase |-> FALSE, amount |-> 1],
    [ins |-> <<>>,                     outs |-> <<"A">>,      coinbase |-> TRUE,  amount |-> 2],
    [ins |-> <<>>,                     outs |-> <<"B">>,      coinbase |-> TRUE,  amount |-> 2],
    [ins |-> << <<2, 1>> >>,           outs |-> <<"A">>,      coinbase |-> FALSE, amount |-> 1],
    [ins |-> << <<2, 1>> >>,           outs |-> <<"B">>,      coinbase |-> FALSE, amount |-> 1],
    \* 11 to 17: the transactions of the druid groups
    [ins |-> << <<1, 0>> >>,           outs |-> <<"B">>,      coinbase |-> FALSE, amount |-> 1],
    [ins |-> << <<1, 1>> >>,           outs |-> <<"A">>,      coinbase |-> FALSE, amount |-> 1],
    [ins |-> << <<2, 0>> >>,           outs |-> <<"A">>,      coinbase |-> FALSE, amount |-> 1],
    [ins |-> << <<9, 0>> >>,           outs |-> <<"B">>,      coinbase |-> FALSE, amount |-> 1],
    [ins |-> << <<2, 1>> >>,           outs |-> <<"A">>,      coinbase |-> FALSE, amount |-> 1],
    [ins |-> << <<2, 1>> >>,           outs |-> <<"B">>,      coinbase |-> FALSE, amount |-> 1],
    [ins |-> << <<1, 1>> >>,           outs |-> <<"B">>,      coinbase |-> FALSE, amount |-> 1],
    \* 18: a coinbase transaction without outputs
    [ins |-> <<>>,                     outs |-> <<>>,         coinbase |-> TRUE,  amount |-> 2]
>>

TxHashes == DOMAIN TxTable
Keys == {"A", "B"}
OutPointsOfTx(h) == { <<h, n>> : n \in 0..(Len(TxTable[h].outs) - 1) }
AllOutPoints == UNION { OutPointsOfTx(h) : h \in TxHashes }

TxOutOf(op) ==
    [script_public_key |-> TxTable[op[1]].outs[op[2] + 1], amount |-> TxTable[op[1]].amount]

\* Ord of OutPoint: by t_hash, then by n
OutPointLess(a, b) == a[1] < b[1] \/ (a[1] = b[1] /\ a[2] < b[2])

RECURSIVE SortedOutPoints(_)
SortedOutPoints(S) ==
    IF S = {} THEN <<>>
    ELSE LET m == CHOOSE x \in S : \A y \in S : x = y \/ OutPointLess(x, y)
         IN  <<m>> \o SortedOutPoints(S \ {m})

RECURSIVE SortedHashes(_)
SortedHashes(S) ==
    IF S = {} THEN <<>>
    ELSE LET m == CHOOSE x \in S : \A y \in S : x <= y
         IN  <<m>> \o SortedHashes(S \ {m})

SeqToSet(s) == { s[i] : i \in DOMAIN s }

RECURSIVE FlattenSeq(_)
FlattenSeq(ss) == IF ss = <<>> THEN <<>> ELSE Head(ss) \o FlattenSeq(Tail(ss))

(***************************************************************************)
(* Tracked UTXO set (tracked_utxo.rs)                                      *)
(***************************************************************************)

\* every (OutPoint, TxOut) of the transactions of a block, in map order
get_tx_out_with_out_point_cloned(block_tx) ==
    LET hs == SortedHashes(block_tx)
    IN  FlattenSeq([i \in DOMAIN hs |->
            [n \in 1..Len(TxTable[hs[i]].outs) |->
                [op |-> <<hs[i], n - 1>>, txout |-> TxOutOf(<<hs[i], n - 1>>)]]])

\* the (script_public_key, OutPoint) pairs of the outputs that carry a key
PkPairs(pairs) ==
    SelectSeq(pairs, LAMBDA e : e.txout.script_public_key # NoKey)

get_pk_with_out_point_cloned(block_tx) ==
    PkPairs(get_tx_out_with_out_point_cloned(block_tx))

get_pk_with_out_point_from_utxo_set_cloned(base) ==
    LET ops == SortedOutPoints(DOMAIN base)
    IN  PkPairs([i \in DOMAIN ops |-> [op |-> ops[i], txout |-> base[ops[i]]]])

RECURSIVE extend_pk_cache_vec(_, _)
extend_pk_cache_vec(pk_cache, spk) ==
    IF spk = <<>> THEN pk_cache
    ELSE LET k  == Head(spk).txout.script_public_key
             op == Head(spk).op
             pushed == IF k \in DOMAIN pk_cache
                       THEN [pk_cache EXCEPT ![k] = Append(@, op)]
                       ELSE pk_cache @@ (k :> <<op>>)
         IN  extend_pk_cache_vec(pushed, Tail(spk))

EmptyMap == [x \in {} |-> x]

create_pk_cache_from_base(base) ==
    extend_pk_cache_vec(EmptyMap, get_pk_with_out_point_from_utxo_set_cloned(base))

\* TrackedUtxoSet::new
TrackedUtxoSet_new(base) == [base |-> base, pk_cache |-> create_pk_cache_from_base(base)]

TrackedUtxoSet_default == [base |-> EmptyMap, pk_cache |-> EmptyMap]

RECURSIVE ExtendBase(_, _)
ExtendBase(base, pairs) ==
    IF pairs = <<>> THEN base
    ELSE LET e == Head(pairs)
         IN  ExtendBase([x \in (DOMAIN base) \cup {e.op} |->
                            IF x = e.op THEN e.txout ELSE base[x]], Tail(pairs))

extend_tracked_utxo_set(u, block_tx) ==
    [base     |-> ExtendBase(u.base, get_tx_out_with_out_point_cloned(block_tx)),
     pk_cache |-> extend_pk_cache_vec(u.pk_cache, get_pk_with_out_point_cloned(block_tx))]

MapRemove(f, k) == [x \in (DOMAIN f) \ {k} |-> f[x]]

\* base.remove(key).and_then(txout.script_public_key).and_then(pk_cache.remove(spk))
remove_tracked_utxo_entry(u, key) ==
    IF key \notin DOMAIN u.base THEN u
    ELSE LET spk == u.base[key].script_public_key
         IN  [base     |-> MapRemove(u.base, key),
              pk_cache |-> IF spk = NoKey THEN u.pk_cache ELSE MapRemove(u.pk_cache, spk)]

get_pk_cache_vec(u, key) == IF key \in DOMAIN u.pk_cache THEN u.pk_cache[key] ELSE <<>>

(***************************************************************************)
(* The tracked UTXO set driven on its own                                  *)
(***************************************************************************)
MaxUtxoOps == 3

UniIdle == [modulus |-> 0, iterations |-> 0, security_level |-> 0, seed |-> 0,
            witness |-> 0, overflow_checks |-> FALSE]
UniResIdle == [op |-> "none", kind |-> None, w |-> 0, old_witness |-> 0]
UniVerIdle == [op |-> "none", seed |-> 0, witness |-> 0, ok |-> FALSE]

UtxoInit ==
    /\ utxo \in {TrackedUtxoSet_default, TrackedUtxoSet_new(ExtendBase(EmptyMap,
                    get_tx_out_with_out_point_cloned({1})))}
    /\ utxo_ops = 0
    /\ uni = UniIdle
    /\ uni_res = UniResIdle
    /\ uni_ver = UniVerIdle
    /\ RaftVarsIdle
    /\ NodeVarsIdle

UtxoExtend ==
    /\ utxo_ops < MaxUtxoOps
    /\ \E block_tx \in (SUBSET {1, 2, 3, 7}) \ {{}} :
          \* the transactions of a block are new to the set (a hash enters once)
          /\ \A h \in block_tx : OutPointsOfTx(h) \cap DOMAIN utxo.base = {}
          /\ utxo' = extend_tracked_utxo_set(utxo, block_tx)
    /\ utxo_ops' = utxo_ops + 1
    /\ UNCHANGED <<uni_vars, raft_vars, node>>

UtxoRemove ==
    /\ utxo_ops < MaxUtxoOps
    /\ \E key \in AllOutPoints : utxo' = remove_tracked_utxo_entry(utxo, key)
    /\ utxo_ops' = utxo_ops + 1
    /\ UNCHANGED <<uni_vars, raft_vars, node>>

UtxoNext == UtxoExtend \/ UtxoRemove

SpecUtxo == UtxoInit /\ [][UtxoNext]_vars

\* C1: after any sequence of extend/remove calls, for every script public key
\* the pk_cache list holds exactly the outpoints of base carrying that key,
\* each exactly once (the struct's documented invariant).
C1_PkCacheMatchesBase ==
    \A k \in Keys :
        LET v == get_pk_cache_vec(utxo, k)
        IN  /\ SeqToSet(v) = { op \in DOMAIN utxo.base : utxo.base[op].script_public_key = k }
            /\ Cardinality(SeqToSet(v)) = Len(v)


(***************************************************************************)
(* UNiCORN engine (unicorn.rs)                                             *)
(***************************************************************************)
U64_BITS == 64
MaxModulus == 19
MaxSeed == 20
MaxIterations == 2
SecurityLevels == {0, 1, 2, 32}

IsPrime(n) == n >= 2 /\ \A d \in 2..(n - 1) : n % d # 0

\* w ^= 1
Xor1(w) == IF w % 2 = 0 THEN w + 1 ELSE w - 1

Diverges == -1

\* *w ^= 1; while *w >= self.modulus || *w == 0 { *w ^= 1 }
\* (the loop alternates between two values: it ends at once, after one more
\* flip, or never)
xor_for_overflow(modulus, w) ==
    LET a == Xor1(w)
        b == Xor1(a)
    IN  IF ~(a >= modulus \/ a = 0) THEN a
        ELSE IF ~(b >= modulus \/ b = 0) THEN b
        ELSE Diverges

RECURSIVE pow_mod(_, _, _)
pow_mod(b, e, modulus) ==
    IF e = 0 THEN 1 % modulus ELSE (b * pow_mod(b, e - 1, modulus)) % modulus

\* 2u64.pow(exp) does not fit in 64 bits
u64_pow2_overflows(exp) == exp >= U64_BITS

\* self.modulus >= 2u64.pow(2 * self.security_level) && !matches!(is_probably_prime, No)
\* An overflowing pow panics in a build with overflow checks and wraps to 0
\* in a build without.
\* The result is "true", "false" or "panic".
is_valid_modulus(u) ==
    IF u64_pow2_overflows(2 * u.security_level)
    THEN IF u.overflow_checks THEN "panic"
         ELSE IF u.modulus >= 0 /\ IsPrime(u.modulus) THEN "true" ELSE "false"
    ELSE IF u.modulus >= 2 ^ (2 * u.security_level) /\ IsPrime(u.modulus)
         THEN "true" ELSE "false"

RECURSIVE EvalLoop(_, _, _)
EvalLoop(u, w, n) ==
    IF n = 0 THEN w
    ELSE EvalLoop(u, pow_mod(xor_for_overflow(u.modulus, w), (u.modulus + 1) \div 4, u.modulus),
                  n - 1)

\* Unicorn::eval: None, or Some(w) with self.witness = w
eval(u) ==
    LET valid == is_valid_modulus(u)
    IN  IF valid = "panic" THEN [kind |-> "panic", w |-> 0, unicorn |-> u]
        ELSE IF valid = "false" THEN [kind |-> None, w |-> 0, unicorn |-> u]
        ELSE LET w == EvalLoop(u, u.seed % u.modulus, u.iterations)
             IN  [kind |-> "Some", w |-> w, unicorn |-> [u EXCEPT !.witness = w]]

RECURSIVE VerifyLoop(_, _, _)
VerifyLoop(u, w, n) ==
    IF n = 0 THEN w
    ELSE VerifyLoop(u, xor_for_overflow(u.modulus, (0 - pow_mod(w, 2, u.modulus)) % u.modulus),
                    n - 1)

\* Unicorn::verify
verify(u, seed, witness) ==
    VerifyLoop(u, witness, u.iterations) = seed % u.modulus

UnicornInit ==
    /\ uni \in [modulus : 0..MaxModulus, iterations : 0..MaxIterations,
                security_level : SecurityLevels, seed : 0..MaxSeed,
                witness : {0, 3}, overflow_checks : BOOLEAN]
    /\ uni_res = UniResIdle
    /\ uni_ver = UniVerIdle
    /\ utxo = TrackedUtxoSet_default
    /\ utxo_ops = 0
    /\ RaftVarsIdle
    /\ NodeVarsIdle

UniEval ==
    /\ uni_res.kind # "panic"
    /\ LET r == eval(uni)
       IN  /\ uni' = r.unicorn
           /\ uni_res' = [op |-> "eval", kind |-> r.kind, w |-> r.w,
                          old_witness |-> uni.witness]
    /\ UNCHANGED <<uni_ver, utxo_vars, raft_vars, node>>

\* verify is called on a unicorn that eval has accepted and evaluated
UniVerify ==
    /\ uni_res.kind = "Some"
    /\ \E seed \in {uni.seed, (uni.seed + 1) % (MaxSeed + 1)}, witness \in 0..MaxModulus :
          uni_ver' = [op |-> "verify", seed |-> seed, witness |-> witness,
                      ok |-> verify(uni, seed, witness)]
    /\ UNCHANGED <<uni, uni_res, utxo_vars, raft_vars, node>>

UnicornNext == UniEval \/ UniVerify

SpecUnicorn == UnicornInit /\ [][UnicornNext]_vars

\* C4: for every modulus eval accepts, every seed and iteration count,
\* verify(seed, witness returned by eval) is true.
C4_VerifyAcceptsEvalWitness ==
    (uni_res.kind = "Some" /\ uni_ver.op = "verify"
        /\ uni_ver.seed = uni.seed /\ uni_ver.witness = uni.witness) => uni_ver.ok

\* C5: after eval produced witness w for seed s, verify(s, w') is false for
\* every w' different from w.
C5_VerifyRejectsOtherWitness ==
    (uni_res.kind = "Some" /\ uni_ver.op = "verify"
        /\ uni_ver.seed = uni.seed /\ uni_ver.witness # uni.witness) => ~uni_ver.ok

\* p < 2^(2k); every modulus of the model is below 2^31
BelowSecurityBound(p, k) == IF 2 * k >= 31 THEN TRUE ELSE p < 2 ^ (2 * k)

\* C6: eval returns None and leaves the witness unchanged whenever
\* p < 2^(2k) or p is not prime, and returns a witness for every other modulus.
C6_EvalNoneIffInvalidModulus ==
    uni_res.op = "eval" =>
        IF BelowSecurityBound(uni.modulus, uni.security_level) \/ ~IsPrime(uni.modulus)
        THEN uni_res.kind = None /\ uni.witness = uni_res.old_witness
        ELSE uni_res.kind = "Some" /\ uni.witness = uni_res.w

(***************************************************************************)
(* Compute consensused state (compute_raft.rs, impl ComputeConsensused)    *)
(***************************************************************************)
\* Option<T>: None is <<>>, Some(x) is <<x>>
NoneOpt == <<>>
Some(x) == <<x>>
IsSome(o) == o # <<>>
Unwrap(o) == o[1]

BLOCK_SIZE_IN_TX == 2
TX_POOL_LIMIT == 3
PartitionFullSize == 2

InfoDefault == [block_hash |-> "", block_num |-> 0, mining_transactions |-> {}, shutdown |-> FALSE]

\* AccumulatingBlockStoredInfo::FirstBlock(utxo_set) / ::Block(info)
AccFirstBlock(utxo_set) == [kind |-> "FirstBlock", utxo_set |-> utxo_set, info |-> InfoDefault]
AccBlock(info) == [kind |-> "Block", utxo_set |-> {}, info |-> info]

RECURSIVE get_total_coinbase_tokens(_)
get_total_coinbase_tokens(txs) ==
    IF txs = {} THEN 0
    ELSE LET h == CHOOSE x \in txs : TRUE
         IN  (IF TxTable[h].coinbase THEN TxTable[h].amount * Len(TxTable[h].outs) ELSE 0)
             + get_total_coinbase_tokens(txs \ {h})

\* utils::calculate_reward: non-increasing in the circulation
calculate_reward(circulation) == IF circulation < 4 THEN 4 ELSE 2

\* MiningPipelineInfo (block_pipeline.rs)
MiningPipelineInfo_default == [participants |-> <<>>, winning_pow |-> {}, unicorn_seed |-> <<>>]

participant_len(p) == Len(p.participants)

add_to_participants(p, addr) ==
    IF addr \in SeqToSet(p.participants) \/ Len(p.participants) >= PartitionFullSize THEN p
    ELSE [p EXCEPT !.participants = Append(@, addr)]

add_to_winning_pow(p, addr, info) ==
    IF addr \notin SeqToSet(p.participants) \/ (\E e \in p.winning_pow : e.addr = addr) THEN p
    ELSE [p EXCEPT !.winning_pow = @ \cup {[addr |-> addr, info |-> info]}]

construct_unicorn(p, tx_inputs) ==
    [p EXCEPT !.unicorn_seed = <<tx_inputs, p.participants>>]

\* order of winner selection: distance, then coinbase hash, then address
WinsOver(e, f) ==
    \/ e.info.d_value < f.info.d_value
    \/ e.info.d_value = f.info.d_value /\ e.info.coinbase < f.info.coinbase
    \/ e.info.d_value = f.info.d_value /\ e.info.coinbase = f.info.coinbase /\ e.addr <= f.addr

select_winning_miner(p) ==
    IF p.winning_pow = {} THEN NoneOpt
    ELSE Some(CHOOSE e \in p.winning_pow : \A f \in p.winning_pow : WinsOver(e, f))

ComputeConsensused_default ==
    [unanimous_majority |-> 0, sufficient_majority |-> 0,
     tx_pool |-> {}, tx_druid_pool |-> <<>>,
     tx_current_block_previous_hash |-> NoneOpt, tx_current_block_num |-> NoneOpt,
     current_block |-> NoneOpt, current_block_tx |-> {}, initial_utxo_txs |-> NoneOpt,
     utxo_set |-> TrackedUtxoSet_default, current_block_stored_info |-> {},
     last_committed_raft_idx_and_term |-> <<0, 0>>, current_circulation |-> 0,
     first_block_pipeline |-> MiningPipelineInfo_default, current_reward |-> 0,
     last_mining_transaction_hashes |-> <<>>, special_handling |-> NoneOpt]

with_peers_len(c, peers_len) ==
    [c EXCEPT !.unanimous_majority = peers_len, !.sufficient_majority = (peers_len \div 2) + 1]

is_first_block(c) == ~IsSome(c.tx_current_block_num)

\* every block number is taken for the current one
is_current_block_any(c, block_num) == IsSome(c.tx_current_block_num)

is_current_block(c, block_num) ==
    IF IsSome(c.tx_current_block_num) THEN block_num = Unwrap(c.tx_current_block_num) ELSE FALSE

\* an entry of current_block_stored_info with the most votes
MaxVotes(infos) ==
    CHOOSE e \in infos : \A f \in infos : Cardinality(e.votes) >= Cardinality(f.votes)

max_agreeing_block_stored_info(c) ==
    IF c.current_block_stored_info = {} THEN 0
    ELSE Cardinality(MaxVotes(c.current_block_stored_info).votes)

\* sufficient_majority for the first block too
has_block_stored_info_ready_sufficient(c) ==
    max_agreeing_block_stored_info(c) >= c.sufficient_majority

has_block_stored_info_ready(c) ==
    max_agreeing_block_stored_info(c)
        >= (IF is_first_block(c) THEN c.unanimous_majority ELSE c.sufficient_majority)

\* entry(block_hash).or_insert((block, {})).1.insert(key.proposer_id)
append_current_block_stored_info(c, key, block) ==
    LET old == {e \in c.current_block_stored_info : e.block = block}
    IN  [c EXCEPT !.current_block_stored_info =
            (@ \ old) \cup {[block |-> block,
                             votes |-> UNION {e.votes : e \in old} \cup {key.proposer_id}]}]

\* the block info with most votes (one entry only has reached the threshold
\* when this is called)
take_ready_block_stored_info(c) ==
    [c |-> [c EXCEPT !.current_block_stored_info = {}],
     block |-> MaxVotes(c.current_block_stored_info).block]

WithReward(c) ==
    [c EXCEPT !.current_reward = calculate_reward(c.current_circulation) \div c.unanimous_majority]

\* the match of apply_ready_block_stored_info on the block info taken
ApplyTaken(c, block) ==
    IF block.kind = "FirstBlock"
    THEN [c |-> WithReward([c EXCEPT
                    !.current_circulation = get_total_coinbase_tokens(block.utxo_set),
                    !.tx_current_block_num = Some(0),
                    !.initial_utxo_txs = Some(block.utxo_set)]),
          b_num |-> 0]
    ELSE IF ~IsSome(c.special_handling) /\ block.info.shutdown
    THEN [c |-> [c EXCEPT !.special_handling = Some("Shutdown")],
          b_num |-> block.info.block_num + 1]
    ELSE [c |-> WithReward([c EXCEPT
                    !.special_handling = NoneOpt,
                    !.current_circulation =
                        @ + get_total_coinbase_tokens(block.info.mining_transactions),
                    !.tx_current_block_previous_hash = Some(block.info.block_hash),
                    !.tx_current_block_num = Some(block.info.block_num + 1),
                    !.utxo_set = extend_tracked_utxo_set(@, block.info.mining_transactions),
                    !.last_mining_transaction_hashes =
                        SortedHashes(block.info.mining_transactions)]),
          b_num |-> block.info.block_num + 1]

ApplyTakenOf(t) == ApplyTaken(t.c, t.block)

\* the block that was not mined is kept
apply_ready_block_stored_info_keep_block(c0) ==
    ApplyTakenOf(take_ready_block_stored_info(c0))

\* the result is the consensused state and the block number returned
apply_ready_block_stored_info(c0) ==
    ApplyTakenOf(take_ready_block_stored_info(
        [c0 EXCEPT !.current_block = NoneOpt, !.current_block_tx = {}]))

\* the first n keys of a map, in key order
FirstKeys(n, keys) == {keys[i] : i \in 1..(IF n < Len(keys) THEN n ELSE Len(keys))}

SplitOff(from, taken) == [taken |-> taken, from |-> from \ taken]

take_first_n_through_nth(n, from) == SplitOff(from, FirstKeys(n + 1, SortedHashes(from)))

\* take_first_n(n, from): the first n keys are taken, the others stay
take_first_n(n, from) == SplitOff(from, FirstKeys(n, SortedHashes(from)))

\* the inner loop of find_invalid_new_txs over the inputs of one transaction:
\* removed_all after the loop, or "invalid" with the additions rolled back
RECURSIVE CheckInputs(_, _, _, _)
CheckInputs(c, ins, removed_all, removed_roll_back) ==
    IF ins = <<>> THEN [invalid |-> FALSE, removed_all |-> removed_all]
    ELSE IF Head(ins) \in DOMAIN c.utxo_set.base /\ Head(ins) \notin removed_all
         THEN CheckInputs(c, Tail(ins), removed_all \cup {Head(ins)},
                          removed_roll_back \cup {Head(ins)})
         ELSE [invalid |-> TRUE, removed_all |-> removed_all \ removed_roll_back]

RECURSIVE FindInvalidLoop(_, _, _)
FindInvalidLoop(c, hashes, removed_all) ==
    IF hashes = <<>> THEN {}
    ELSE LET r == CheckInputs(c, TxTable[Head(hashes)].ins, removed_all, {})
         IN  (IF r.invalid THEN {Head(hashes)} ELSE {})
             \cup FindInvalidLoop(c, Tail(hashes), r.removed_all)

\* find_invalid_new_txs without removed_all: an input is only looked up in the
\* UTXO set
find_invalid_new_txs_utxo_only(c, new_txs) ==
    {h \in new_txs : \E k \in DOMAIN TxTable[h].ins :
                         TxTable[h].ins[k] \notin DOMAIN c.utxo_set.base}

find_invalid_new_txs(c, new_txs) == FindInvalidLoop(c, SortedHashes(new_txs), {})

\* the inputs of the transactions at the given hashes, in order
InputsOf(hs) == FlattenSeq([i \in DOMAIN hs |-> TxTable[hs[i]].ins])

\* get_inputs_previous_out_point(txs.values())
get_inputs_previous_out_point(txs) == InputsOf(SortedHashes(txs))

RECURSIVE RemoveEntries(_, _)
RemoveEntries(u, ops) ==
    IF ops = <<>> THEN u
    ELSE RemoveEntries(remove_tracked_utxo_entry(u, Head(ops)), Tail(ops))

\* the state of generate_block: the consensused fields with the block under
\* construction
BlockNew == [header |-> [b_num |-> 0, previous_hash |-> NoneOpt], transactions |-> <<>>]

update_current_block_tx_with_given_valid_txs(g, txs) ==
    [g EXCEPT !.c.utxo_set = RemoveEntries(@, get_inputs_previous_out_point(txs)),
              !.block.transactions = @ \o SortedHashes(txs),
              !.block_tx = @ \cup txs]

RECURSIVE DdeLoop(_, _)
DdeLoop(g, tx_druid_pool) ==
    IF tx_druid_pool = <<>> THEN g
    ELSE IF find_invalid_new_txs(g.c, Head(tx_druid_pool)) # {}
         THEN DdeLoop(g, Tail(tx_druid_pool))
         ELSE DdeLoop(update_current_block_tx_with_given_valid_txs(g, Head(tx_druid_pool)),
                      Tail(tx_druid_pool))

\* update_committed_dde_tx dropping only the invalid transactions of a group
RECURSIVE DdeLoopPerTransaction(_, _)
DdeLoopPerTransaction(g, tx_druid_pool) ==
    IF tx_druid_pool = <<>> THEN g
    ELSE DdeLoopPerTransaction(
             update_current_block_tx_with_given_valid_txs(
                 g, Head(tx_druid_pool) \ find_invalid_new_txs(g.c, Head(tx_druid_pool))),
             Tail(tx_druid_pool))

update_committed_dde_tx_per_transaction(g) ==
    DdeLoopPerTransaction([g EXCEPT !.c.tx_druid_pool = <<>>], g.c.tx_druid_pool)

update_committed_dde_tx(g) ==
    DdeLoop([g EXCEPT !.c.tx_druid_pool = <<>>], g.c.tx_druid_pool)

\* the block is filled with what take_first_n took from the cleaned tx_pool
FillBlock(g, t) ==
    update_current_block_tx_with_given_valid_txs([g EXCEPT !.c.tx_pool = t.from], t.taken)

update_current_block_tx(g) ==
    FillBlock(g, take_first_n(BLOCK_SIZE_IN_TX,
                              g.c.tx_pool \ find_invalid_new_txs(g.c, g.c.tx_pool)))

\* take(&mut tx_current_block_previous_hash).unwrap(); tx_current_block_num.unwrap()
update_block_header(g) ==
    IF ~IsSome(g.c.tx_current_block_previous_hash) \/ ~IsSome(g.c.tx_current_block_num)
    THEN [g EXCEPT !.panic = TRUE]
    ELSE [g EXCEPT !.c.tx_current_block_previous_hash = NoneOpt,
                   !.block.header = [b_num |-> Unwrap(g.c.tx_current_block_num),
                                     previous_hash |-> g.c.tx_current_block_previous_hash]]

set_committed_mining_block(c, block, block_tx) ==
    [c EXCEPT !.utxo_set = extend_tracked_utxo_set(@, block_tx),
              !.current_block = Some(block),
              !.current_block_tx = block_tx,
              !.first_block_pipeline = construct_unicorn(@, SortedHashes(c.tx_pool))]

\* the first block takes the transactions of tx_pool along
generate_first_block_with_tx_pool(c) ==
    IF ~IsSome(c.initial_utxo_txs) THEN [c |-> c, panic |-> TRUE]
    ELSE [c |-> set_committed_mining_block(
                    [c EXCEPT !.initial_utxo_txs = NoneOpt],
                    [BlockNew EXCEPT !.transactions =
                        SortedHashes(Unwrap(c.initial_utxo_txs) \cup c.tx_pool)],
                    Unwrap(c.initial_utxo_txs) \cup c.tx_pool),
          panic |-> FALSE]

\* initial_utxo_txs.take().unwrap(): the result is the consensused state and
\* whether the call panicked
generate_first_block(c) ==
    IF ~IsSome(c.initial_utxo_txs) THEN [c |-> c, panic |-> TRUE]
    ELSE [c |-> set_committed_mining_block(
                    [c EXCEPT !.initial_utxo_txs = NoneOpt],
                    [BlockNew EXCEPT !.transactions = SortedHashes(Unwrap(c.initial_utxo_txs))],
                    Unwrap(c.initial_utxo_txs)),
          panic |-> FALSE]

SetGenerated(g) ==
    IF g.panic THEN [c |-> g.c, panic |-> TRUE]
    ELSE [c |-> set_committed_mining_block(g.c, g.block, g.block_tx), panic |-> FALSE]

generate_block(c) ==
    SetGenerated(update_block_header(update_current_block_tx(update_committed_dde_tx(
        [c |-> c, block |-> BlockNew, block_tx |-> {}, panic |-> FALSE]))))

\* take(&mut current_block).unwrap(), take(&mut current_block_tx)
take_mining_block(c) ==
    IF ~IsSome(c.current_block) THEN [c |-> c, panic |-> TRUE, block |-> BlockNew, block_tx |-> {}]
    ELSE [c |-> [c EXCEPT !.current_block = NoneOpt, !.current_block_tx = {}],
          panic |-> FALSE, block |-> Unwrap(c.current_block), block_tx |-> c.current_block_tx]

\* MinedBlockExtraInfo of the winner, or the panic "No winner found"
ExtraInfoOf(win) ==
    IF IsSome(win)
    THEN [panic |-> FALSE, nonce |-> Unwrap(win).info.nonce,
          mining_tx |-> Unwrap(win).info.coinbase, shutdown |-> FALSE]
    ELSE [panic |-> TRUE, nonce |-> 0, mining_tx |-> 0, shutdown |-> FALSE]

\* an accepted entry of the highest address
LastAddress(winning_pow) ==
    IF winning_pow = {} THEN NoneOpt
    ELSE Some(CHOOSE e \in winning_pow : \A f \in winning_pow : e.addr >= f.addr)

\* get_mined_block_extra_info reporting an accepted entry that need not be the
\* winner
get_mined_block_extra_info_last_address(c) ==
    ExtraInfoOf(LastAddress(c.first_block_pipeline.winning_pow))

get_mined_block_extra_info(c) == ExtraInfoOf(select_winning_miner(c.first_block_pipeline))

(***************************************************************************)
(* Raft items, commits and the in-flight proposal ledger                   *)
(***************************************************************************)
PowDefault == [nonce |-> 0, coinbase |-> 0, d_value |-> 0]
ItemDefault ==
    [type |-> "", txs |-> {}, groups |-> <<>>, info |-> InfoDefault, addr |-> 0, pow |-> PowDefault]

\* ComputeRaftItem
ItemFirstBlock(utxo_set) == [ItemDefault EXCEPT !.type = "FirstBlock", !.txs = utxo_set]
ItemBlock(info) == [ItemDefault EXCEPT !.type = "Block", !.info = info]
ItemTransactions(txs) == [ItemDefault EXCEPT !.type = "Transactions", !.txs = txs]
ItemDruidTransactions(groups) == [ItemDefault EXCEPT !.type = "DruidTransactions", !.groups = groups]
ItemMiningParticipant(addr) == [ItemDefault EXCEPT !.type = "MiningParticipant", !.addr = addr]
ItemWinningPoW(addr, pow) == [ItemDefault EXCEPT !.type = "WinningPoW", !.addr = addr, !.pow = pow]
ItemParticipantIntakeClosed == [ItemDefault EXCEPT !.type = "ParticipantIntakeClosed"]

KeyDefault == [proposer_id |-> 0, proposal_id |-> 0, key_run |-> 0]

\* RaftCommit { index, term, data }: Proposed(item, key) / Snapshot(bytes) / NewLeader
CommitProposed(key, item) == [data |-> "Proposed", key |-> key, item |-> item, snapshot |-> NoneOpt]
CommitSnapshot(snapshot) == [data |-> "Snapshot", key |-> KeyDefault, item |-> ItemDefault, snapshot |-> snapshot]
CommitNewLeader == [data |-> "NewLeader", key |-> KeyDefault, item |-> ItemDefault, snapshot |-> NoneOpt]

\* RaftInFlightProposals (raft_util.rs)
RaftInFlightProposals_default(key_run) ==
    [in_flight |-> {}, proposed_last_id |-> 0, key_run |-> key_run, already_proposed |-> {}]

\* the item enters the ledger under a fresh key and is proposed to Raft
LedgerInsert(l, key, item, b_num) ==
    [l |-> [l EXCEPT !.proposed_last_id = @ + 1,
                     !.in_flight = @ \cup {[key |-> key, item |-> item]},
                     !.already_proposed =
                         IF IsSome(b_num) THEN @ \cup {<<Unwrap(b_num), item>>} ELSE @],
     proposed |-> TRUE,
     commits |-> <<CommitProposed(key, item)>>]

\* propose_item(raft, item, b_num): None for an item already proposed for b_num
LedgerPropose(l, id, item, b_num) ==
    IF IsSome(b_num) /\ <<Unwrap(b_num), item>> \in l.already_proposed
    THEN [l |-> l, proposed |-> FALSE, commits |-> <<>>]
    ELSE LedgerInsert(l, [proposer_id |-> id, proposal_id |-> l.proposed_last_id + 1,
                          key_run |-> l.key_run], item, b_num)

\* received_commit_proposal(data, ctx): the item is handed over with
\* removed = "the key was in flight here"
LedgerCommit(l, key) ==
    [l |-> [l EXCEPT !.in_flight = {e \in @ : e.key # key}],
     removed |-> \E e \in l.in_flight : e.key = key]

ignore_dedeup_b_num_less_than(l, b_num) ==
    [l EXCEPT !.already_proposed = {e \in @ : e[1] >= b_num}]

\* the in-flight proposal with the lowest proposal id
FirstInFlight(S) == CHOOSE e \in S : \A f \in S : e.key.proposal_id <= f.key.proposal_id

RECURSIVE SortedInFlight(_)
SortedInFlight(S) ==
    IF S = {} THEN <<>>
    ELSE <<CommitProposed(FirstInFlight(S).key, FirstInFlight(S).item)>>
         \o SortedInFlight(S \ {FirstInFlight(S)})

re_propose_all_items(l) == SortedInFlight(l.in_flight)

\* the in-flight items proposed with the dedup block number b_num
re_propose_uncommitted_current_b_num(l, b_num) ==
    SortedInFlight({e \in l.in_flight :
                        e.item.type = "Block" /\ e.item.info.block_num = b_num})

(***************************************************************************)
(* ComputeRaft (compute_raft.rs)                                           *)
(***************************************************************************)
InitialPending(kind, item, dedup_b_num) == [kind |-> kind, item |-> item, dedup_b_num |-> dedup_b_num]

\* serde of ComputeConsensused: the tracked UTXO set is written as its base
\* and its pk_cache is rebuilt on reading
serialize(c) == [c EXCEPT !.utxo_set = c.utxo_set.base]
deserialize(ser) == [ser EXCEPT !.utxo_set = TrackedUtxoSet_new(ser.utxo_set)]

ComputeRaft_new(id, peers_len, seed_utxo, key_run) ==
    [id |-> id,
     consensused |-> with_peers_len(ComputeConsensused_default, peers_len),
     consensused_snapshot_applied |-> FALSE,
     local_initial_proposal |->
         Some(InitialPending("PendingItem", ItemFirstBlock(seed_utxo), NoneOpt)),
     local_tx_pool |-> {}, local_tx_druid_pool |-> <<>>, local_tx_hash_last_commited |-> <<>>,
     proposed_in_flight |-> RaftInFlightProposals_default(key_run),
     proposed_tx_pool_len |-> 0,
     proposed_tx_pool_len_max |-> BLOCK_SIZE_IN_TX \div peers_len,
     proposed_and_consensused_tx_pool_len_max |-> BLOCK_SIZE_IN_TX * 2,
     shutdown_no_commit_process |-> FALSE,
     snapshot |-> NoneOpt]

\* the outcome of a ComputeRaft call: the new ComputeRaft, the CommittedItem
\* or the bool returned, the commits it proposed to Raft, whether it panicked
Outcome(r, ret, commits, panic) == [r |-> r, ret |-> ret, commits |-> commits, panic |-> panic]

Proposed(r, p) == Outcome([r EXCEPT !.proposed_in_flight = p.l], p.proposed, p.commits, FALSE)

propose_item(r, item, b_num) ==
    Proposed(r, LedgerPropose(r.proposed_in_flight, r.id, item, b_num))

apply_snapshot(r, consensused_ser) ==
    IF ~IsSome(consensused_ser)
    THEN Outcome([r EXCEPT !.consensused_snapshot_applied = TRUE], "None", <<>>, FALSE)
    ELSE Outcome([r EXCEPT !.consensused_snapshot_applied = TRUE,
                           !.consensused = deserialize(Unwrap(consensused_ser)),
                           !.local_initial_proposal =
                               IF IsSome(@) THEN Some(InitialPending("PendingAll", ItemDefault, NoneOpt))
                               ELSE @],
                 "Snapshot", <<>>, FALSE)

\* time::timeout(1000 ms, propose_participant_intake_closed())
timeout_miner_selection(r) == propose_item(r, ItemParticipantIntakeClosed, NoneOpt)

Applied(r, a, committed) ==
    Outcome([r EXCEPT !.consensused = a.c,
                      !.proposed_in_flight = ignore_dedeup_b_num_less_than(@, a.b_num)],
            committed, <<>>, FALSE)

ApplyIfReady(r, c1, committed) ==
    IF has_block_stored_info_ready(c1)
    THEN Applied(r, apply_ready_block_stored_info(c1), committed)
    ELSE Outcome([r EXCEPT !.consensused = c1], "None", <<>>, FALSE)

\* FirstBlock and Block share the vote accumulation and its application
AccumulateAndApply(r, key, block, committed) ==
    ApplyIfReady(r, append_current_block_stored_info(r.consensused, key, block), committed)

\* the participant joins the pipeline after the intake countdown was started
AddParticipant(t, addr) ==
    Outcome([t.r EXCEPT !.consensused.first_block_pipeline = add_to_participants(@, addr)],
            "None", t.commits, FALSE)

\* the match of received_commit_proposal on the committed item
CommitItem(r, key, item) ==
    CASE item.type = "FirstBlock" ->
            IF ~is_first_block(r.consensused) THEN Outcome(r, "None", <<>>, FALSE)
            ELSE AccumulateAndApply(r, key, AccFirstBlock(item.txs), "FirstBlock")
      [] item.type = "Transactions" ->
            Outcome([r EXCEPT !.local_tx_hash_last_commited = SortedHashes(item.txs),
                              !.consensused.tx_pool = @ \cup item.txs],
                    "Transactions", <<>>, FALSE)
      [] item.type = "DruidTransactions" ->
            Outcome([r EXCEPT !.consensused.tx_druid_pool = @ \o item.groups],
                    "Transactions", <<>>, FALSE)
      [] item.type = "ParticipantIntakeClosed" ->
            Outcome(r, "ParticipantIntakeClosed", <<>>, FALSE)
      [] item.type = "MiningParticipant" ->
            AddParticipant(IF participant_len(r.consensused.first_block_pipeline) = 0
                           THEN timeout_miner_selection(r)
                           ELSE Outcome(r, TRUE, <<>>, FALSE),
                           item.addr)
      [] item.type = "WinningPoW" ->
            Outcome([r EXCEPT !.consensused.first_block_pipeline =
                                  add_to_winning_pow(@, item.addr, item.pow)],
                    "None", <<>>, FALSE)
      [] item.type = "Block" ->
            IF ~is_current_block(r.consensused, item.info.block_num)
            THEN Outcome(r, "None", <<>>, FALSE)
            ELSE AccumulateAndApply(r, key, AccBlock(item.info), "Block")

\* what the ledger answered: the key leaves the in-flight set and a removed
\* Transactions item no longer counts as proposed
Removed(r0, lc, item) ==
    [r0 EXCEPT !.proposed_in_flight = lc.l,
               !.proposed_tx_pool_len =
                   IF lc.removed /\ item.type = "Transactions"
                   THEN @ - Cardinality(item.txs) ELSE @]

received_commit_proposal(r0, key, item) ==
    CommitItem(Removed(r0, LedgerCommit(r0.proposed_in_flight, key), item), key, item)

\* the match of received_commit on the data of the commit
CommitData(r, raft_commit) ==
    CASE raft_commit.data = "Proposed" ->
            received_commit_proposal(r, raft_commit.key, raft_commit.item)
      [] raft_commit.data = "Snapshot" -> apply_snapshot(r, raft_commit.snapshot)
      [] raft_commit.data = "NewLeader" ->
            Outcome(r, "None", re_propose_all_items(r.proposed_in_flight), FALSE)

\* received_commit dropping, as a duplicate, a Transactions commit whose key is
\* not in flight at this replica
received_commit_own_only(r0, raft_commit, index) ==
    IF /\ raft_commit.data = "Proposed"
       /\ raft_commit.item.type = "Transactions"
       /\ ~(\E e \in r0.proposed_in_flight.in_flight : e.key = raft_commit.key)
    THEN Outcome([r0 EXCEPT !.consensused.last_committed_raft_idx_and_term = <<index, 1>>],
                 "None", <<>>, FALSE)
    ELSE CommitData([r0 EXCEPT !.consensused.last_committed_raft_idx_and_term = <<index, 1>>],
                    raft_commit)

\* raft_commit is the commit at position index of the log
received_commit(r0, raft_commit, index) ==
    CommitData([r0 EXCEPT !.consensused.last_committed_raft_idx_and_term = <<index, 1>>],
               raft_commit)

\* the item of PendingItem was proposed: nothing is pending any more
InitialItemProposed(r, o) ==
    IF o.ret THEN Outcome([o.r EXCEPT !.local_initial_proposal = NoneOpt], TRUE, o.commits, FALSE)
    ELSE Outcome(r, FALSE, <<>>, TRUE)

\* the match of propose_initial_item on the pending proposal
InitialItem(r, p) ==
    CASE p.kind = "PendingAll" ->
            Outcome([r EXCEPT !.local_initial_proposal =
                        Some(InitialPending("PendingAuthorized", ItemDefault, NoneOpt))],
                    TRUE, <<>>, FALSE)
      [] p.kind = "PendingItem" ->
            InitialItemProposed(r, propose_item(r, p.item, p.dedup_b_num))
      [] p.kind = "PendingAuthorized" -> Outcome(r, FALSE, <<>>, TRUE)

\* PendingAuthorized or None: panic!("propose_initial_item called again")
propose_initial_item(r) ==
    IF ~IsSome(r.local_initial_proposal) THEN Outcome(r, FALSE, <<>>, TRUE)
    ELSE InitialItem(r, Unwrap(r.local_initial_proposal))

\* the block info replaces the pending initial proposal
PendingBlock(r, proposal) ==
    Outcome([r EXCEPT !.local_initial_proposal = proposal],
            r.local_initial_proposal # proposal, <<>>, FALSE)

\* the block is proposed whatever the state of the initial proposal
propose_block_with_last_info_at_once(r, block) ==
    propose_item([r EXCEPT !.local_initial_proposal = NoneOpt],
                 ItemBlock(block), Some(block.block_num))

propose_block_with_last_info(r, block) ==
    IF ~IsSome(r.local_initial_proposal)
       \/ Unwrap(r.local_initial_proposal).kind = "PendingAuthorized"
    THEN propose_item([r EXCEPT !.local_initial_proposal = NoneOpt],
                      ItemBlock(block), Some(block.block_num))
    ELSE PendingBlock(r, Some(InitialPending("PendingItem", ItemBlock(block),
                                             Some(block.block_num))))

proposed_and_consensused_tx_pool_len(r) ==
    r.proposed_tx_pool_len + Cardinality(r.consensused.tx_pool)

combined_tx_pool_len(r) ==
    Cardinality(r.local_tx_pool) + proposed_and_consensused_tx_pool_len(r)

tx_pool_can_accept(r, extra_len) == combined_tx_pool_len(r) + extra_len <= TX_POOL_LIMIT

append_to_tx_pool(r, transactions) == [r EXCEPT !.local_tx_pool = @ \cup transactions]

append_to_tx_druid_pool(r, transactions) == [r EXCEPT !.local_tx_druid_pool = Append(@, transactions)]

saturating_sub(a, b) == IF a > b THEN a - b ELSE 0

min(a, b) == IF a < b THEN a ELSE b

\* the transactions taken from the local pool are proposed when there are any
ProposeTaken(r, t) ==
    IF t.taken # {}
    THEN propose_item([r EXCEPT !.local_tx_pool = t.from,
                                !.proposed_tx_pool_len = @ + Cardinality(t.taken)],
                      ItemTransactions(t.taken), NoneOpt)
    ELSE Outcome([r EXCEPT !.local_tx_pool = t.from], TRUE, <<>>, FALSE)

\* at most proposed_tx_pool_len_max transactions, whatever is in flight
propose_local_transactions_at_timeout_per_proposal(r) ==
    ProposeTaken(r, take_first_n(r.proposed_tx_pool_len_max, r.local_tx_pool))

propose_local_transactions_at_timeout(r) ==
    ProposeTaken(r, take_first_n(
        min(saturating_sub(r.proposed_and_consensused_tx_pool_len_max,
                           proposed_and_consensused_tx_pool_len(r)),
            r.proposed_tx_pool_len_max),
        r.local_tx_pool))

propose_local_druid_transactions(r) ==
    IF r.local_tx_druid_pool # <<>>
    THEN propose_item([r EXCEPT !.local_tx_druid_pool = <<>>],
                      ItemDruidTransactions(r.local_tx_druid_pool), NoneOpt)
    ELSE Outcome(r, TRUE, <<>>, FALSE)

is_shutdown_on_commit(r) == r.consensused.special_handling = Some("Shutdown")

\* create_snapshot(last committed index, serialize(consensused))
event_processed_generate_snapshot(r) ==
    [r EXCEPT !.snapshot = Some([idx |-> r.consensused.last_committed_raft_idx_and_term[1],
                                 data |-> serialize(r.consensused)]),
              !.shutdown_no_commit_process = IF is_shutdown_on_commit(r) THEN TRUE ELSE @]

\* a block was generated for the committed item: the snapshot follows
Generated(o, g) ==
    IF g.panic THEN Outcome([o.r EXCEPT !.consensused = g.c], o.ret, o.commits, TRUE)
    ELSE Outcome(event_processed_generate_snapshot([o.r EXCEPT !.consensused = g.c]),
                 o.ret, o.commits, FALSE)

\* the match of handle_committed_data on what received_commit returned
AfterCommit(o) ==
    CASE o.ret = "FirstBlock" -> Generated(o, generate_first_block(o.r.consensused))
      [] o.ret = "Block" -> Generated(o, generate_block(o.r.consensused))
      [] o.ret = "Transactions" ->
            Outcome([o.r EXCEPT !.local_tx_hash_last_commited = <<>>], o.ret, o.commits, FALSE)
      [] OTHER -> o

\* the ComputeRaft part of ComputeNode::handle_committed_data: received_commit
\* followed by the block generation and the snapshot the committed item calls for
CommitStep(r, raft_commit, index) == AfterCommit(received_commit(r, raft_commit, index))

\* the transaction timeout branch of the event loop
DruidProposed(t, d) == Outcome(d.r, TRUE, t.commits \o d.commits, FALSE)

DruidAfter(t) == DruidProposed(t, propose_local_druid_transactions(t.r))

timeout_propose_transactions(r) == DruidAfter(propose_local_transactions_at_timeout(r))

(***************************************************************************)
(* Two compute replicas of one Raft group                                  *)
(***************************************************************************)
MaxLog == 5
MaxLag == 1
Replicas == {1, 2}
SeedUtxo == {1, 2}
\* the transactions a replica receives from its users
LocalTxs(i) == IF i = 1 THEN {3} ELSE {}

\* the BlockStoredInfo of the Block items of the log for block n
SentInfos(n) ==
    {raft_log[k].item.info : k \in {x \in DOMAIN raft_log :
        raft_log[x].item.type = "Block" /\ raft_log[x].item.info.block_num = n}}

\* what storage answers for block n: the storage group answers every replica
\* with the same BlockStoredInfo for a block
StoredInfosOf(n) ==
    IF SentInfos(n) # {} THEN SentInfos(n)
    ELSE {[block_hash |-> "h", block_num |-> n, mining_transactions |-> {7},
           shutdown |-> s] : s \in BOOLEAN}

StoredInfos(r) ==
    IF is_first_block(r.consensused) THEN {}
    ELSE StoredInfosOf(Unwrap(r.consensused.tx_current_block_num))

RaftInit ==
    /\ rafts = [i \in Replicas |-> ComputeRaft_new(i, Cardinality(Replicas), SeedUtxo, 0)]
    /\ raft_log = <<>>
    /\ applied = [i \in Replicas |-> [count |-> 0, panicked |-> FALSE]]
    /\ snap_src = [i \in Replicas |-> 0]
    /\ node = <<>>
    /\ utxo = TrackedUtxoSet_default
    /\ utxo_ops = 0
    /\ uni = UniIdle
    /\ uni_res = UniResIdle
    /\ uni_ver = UniVerIdle

\* a local call of replica i whose proposals reach the log
RaftLocal(i, o) ==
    /\ ~o.panic
    /\ Len(raft_log) + Len(o.commits) <= MaxLog
    /\ rafts' = [rafts EXCEPT ![i] = o.r]
    /\ raft_log' = raft_log \o o.commits
    /\ rafts'[i] # rafts[i]
    /\ UNCHANGED <<applied, snap_src, node, utxo_vars, uni_vars>>

RaftAppendToTxPool ==
    \E i \in Replicas : \E h \in LocalTxs(i) :
        /\ ~applied[i].panicked
        /\ RaftLocal(i, Outcome(append_to_tx_pool(rafts[i], {h}), TRUE, <<>>, FALSE))

RaftTimeout ==
    \E i \in Replicas :
        /\ ~applied[i].panicked
        /\ RaftLocal(i, timeout_propose_transactions(rafts[i]))

RaftProposeInitialItem ==
    \E i \in Replicas :
        /\ ~applied[i].panicked
        /\ RaftLocal(i, propose_initial_item(rafts[i]))

RaftProposeBlock ==
    \E i \in Replicas : \E info \in StoredInfos(rafts[i]) :
        /\ ~applied[i].panicked
        /\ RaftLocal(i, propose_block_with_last_info(rafts[i], info))

RaftNewLeader ==
    /\ Len(raft_log) < MaxLog
    /\ CommitNewLeader \notin SeqToSet(raft_log)
    /\ raft_log' = Append(raft_log, CommitNewLeader)
    /\ UNCHANGED <<rafts, applied, snap_src, node, utxo_vars, uni_vars>>

\* replica i has processed the commit at position index with outcome o
RaftDeliver(i, index, o) ==
    /\ Len(raft_log) + Len(o.commits) <= MaxLog
    /\ rafts' = [rafts EXCEPT ![i] = o.r]
    /\ raft_log' = raft_log \o o.commits
    /\ applied' = [applied EXCEPT ![i] = [count |-> index, panicked |-> o.panic]]

RaftReceivedCommit ==
    \E i \in Replicas :
        /\ ~applied[i].panicked
        /\ applied[i].count < Len(raft_log)
        /\ \A j \in Replicas : applied[i].count + 1 - applied[j].count <= MaxLag
        /\ RaftDeliver(i, applied[i].count + 1,
                       CommitStep(rafts[i], raft_log[applied[i].count + 1], applied[i].count + 1))
        /\ UNCHANGED <<snap_src, node, utxo_vars, uni_vars>>

\* replica i processes the snapshot s that replica j generated
RaftInstall(i, j, s) ==
    /\ applied[i].count < s.idx
    /\ RaftDeliver(i, s.idx, CommitStep(rafts[i], CommitSnapshot(Some(s.data)), s.idx))
    /\ snap_src' = [snap_src EXCEPT ![i] = j]

\* Raft hands replica i, which is behind, the last snapshot of replica j
RaftInstallSnapshot ==
    \E i \in Replicas, j \in Replicas :
        /\ i # j
        /\ ~applied[i].panicked
        /\ IsSome(rafts[j].snapshot)
        /\ RaftInstall(i, j, Unwrap(rafts[j].snapshot))
        /\ UNCHANGED <<node, utxo_vars, uni_vars>>

RaftNext ==
    \/ RaftAppendToTxPool \/ RaftTimeout \/ RaftProposeInitialItem
    \/ RaftProposeBlock \/ RaftNewLeader \/ RaftReceivedCommit \/ RaftInstallSnapshot

SpecRaft == RaftInit /\ [][RaftNext]_vars

SameConsensused(a, b) ==
    /\ serialize(a) = serialize(b)
    /\ \A k \in Keys : SeqToSet(get_pk_cache_vec(a.utxo_set, k))
                        = SeqToSet(get_pk_cache_vec(b.utxo_set, k))

\* C3: a replica that applied the snapshot of another replica holds, and after
\* the same later commits still holds, the consensused state of that replica,
\* with the same per-address outpoints in the UTXO reverse index.
C3_SnapshotRoundTrip ==
    \A i \in Replicas :
        (snap_src[i] # 0 /\ applied[i].count = applied[snap_src[i]].count)
            => SameConsensused(rafts[i].consensused, rafts[snap_src[i]].consensused)

(***************************************************************************)
(* ComputeNode (compute.rs): the dispatcher around one ComputeRaft         *)
(***************************************************************************)
\* u64::MAX: above every block number
NoShutdown == 2147483647
Miners == {1, 2}
MinimumMinerPoolLen == 1
NodePeersLen == 2

\* what the node answered to its last event, with what held before it:
\*   stale: block_num was not the number of the block being mined
\*   repeat: a mined block for block_num was already held; for a partition
\*           request, an earlier request of the run had left the request
\*           list at the minimum size
\*   over: the request would push the combined pool above the limit
\*   shutdown_commit: a shutdown BlockStoredInfo was applied while
\*                    special_handling was None
\*   changed: the event altered what the event is checked against
\*   msgs: the messages resend_trigger_message sent
\*   full: the partition list was full; peer: the sender of the partition entry
\*   group: the shutdown group before a Closing
\*   bad: the sender was outside the cohort, the coinbase did not pay the
\*        reward or the nonce failed the PoW validation
Last(event, reason) ==
    [event |-> event, reason |-> reason, stale |-> FALSE, repeat |-> FALSE,
     over |-> FALSE, shutdown_commit |-> FALSE, changed |-> FALSE, msgs |-> {},
     full |-> FALSE, peer |-> 0, bad |-> FALSE, group |-> {}]

\* the columns of the node database
Db_default == [local_txs |-> {}, key_run |-> NoneOpt, request_list |-> {}]

PartitionList_default == [pows |-> <<>>, addrs |-> {}]

StorageAddr == 0

\* the addresses of the other peers of the Raft group of node 1
raft_peer_addrs(peers_len) == {10 + i : i \in 2..peers_len}

\* ComputeNode::new before load_local_db; storage_sent is the last SendBlock
\* that reached the storage node, boot_snapshot tells that Raft still has to
\* deliver the snapshot it restarted from; first_floods counts the 'Received
\* first full partition request' of the run and at_minimum tells that a
\* partition request of the run left the request list at the minimum size
ComputeNode_new(db, storage_sent, restarts) ==
    [db |-> db, current_mined_block |-> NoneOpt, request_list |-> {},
     request_list_first_flood |-> Some(MinimumMinerPoolLen),
     current_random_num |-> 0,
     partition_list |-> PartitionList_default, partition_key |-> NoneOpt,
     coordiated_shudown |-> NoShutdown, closing_floods |-> 0,
     shutdown_group |-> raft_peer_addrs(NodePeersLen) \cup {StorageAddr},
     first_floods |-> 0, at_minimum |-> FALSE,
     storage_sent |-> storage_sent, boot_snapshot |-> FALSE, restarts |-> restarts,
     last |-> Last("", "")]

\* the node and its ComputeRaft after a handler, with the Response reason, the
\* commits proposed to Raft and whether the handler panicked
Resp(n, r, reason, commits, panic) ==
    [n |-> n, r |-> r, reason |-> reason, commits |-> commits, panic |-> panic]

NoResponse == "None"

\* the stored key_run taken as it is
NextKeyRun_stored(db) == IF IsSome(db.key_run) THEN Unwrap(db.key_run) ELSE 0

\* key_run of this run: the stored one plus one, or 0
NextKeyRun(db) == IF IsSome(db.key_run) THEN Unwrap(db.key_run) + 1 ELSE 0

get_local_transactions(db) == db.local_txs

store_local_transactions(db, transactions) == [db EXCEPT !.local_txs = @ \cup transactions]

delete_local_transactions(db, keys) == [db EXCEPT !.local_txs = @ \ keys]

\* the node part of load_local_db
load_local_db(n) ==
    [n EXCEPT !.request_list = n.db.request_list,
              !.request_list_first_flood =
                  IF Unwrap(@) < Cardinality(n.db.request_list) THEN NoneOpt ELSE @,
              !.db.key_run = Some(NextKeyRun(n.db))]

\* the ComputeRaft of a run: ComputeRaft::new, then set_key_run and
\* append_to_tx_pool(get_local_transactions) of load_local_db; the Raft
\* store keeps the last snapshot
set_key_run(r, key_run) == [r EXCEPT !.proposed_in_flight.key_run = key_run]

RaftOfRun(db, snapshot) ==
    [append_to_tx_pool(set_key_run(ComputeRaft_new(1, NodePeersLen, SeedUtxo, 0),
                                   NextKeyRun(db)),
                       get_local_transactions(db))
        EXCEPT !.snapshot = snapshot]

\* generate_random_num: a number no earlier round of the run had
reset_mining_block_process(n) ==
    [n EXCEPT !.partition_list = PartitionList_default,
              !.current_random_num = @ + 1,
              !.partition_key = NoneOpt,
              !.current_mined_block = NoneOpt]

\* StorageRequest::SendBlock of the current mined block
SendBlock(mined) ==
    [b_num |-> mined.block.header.b_num, nonce |-> mined.nonce,
     mining_tx |-> mined.mining_transaction, shutdown |-> mined.shutdown]

send_block_to_storage(n) ==
    [n EXCEPT !.storage_sent = Some(SendBlock(Unwrap(n.current_mined_block)))]

flood_closing_events(n) == [n EXCEPT !.closing_floods = @ + 1]

\* a message on the wire: the peer it goes to and the request it carries
MsgDefault ==
    [to |-> 0, kind |-> "", b_num |-> 0, previous_hash |-> NoneOpt, transactions |-> <<>>,
     nonce |-> 0, mining_tx |-> 0, shutdown |-> FALSE, p_list |-> <<>>, rnum |-> 0,
     win_coinbases |-> <<>>, reward |-> 0]

\* what a flood sent, and whether it panicked on an unwrap
Sent(msgs, panic) == [msgs |-> msgs, panic |-> panic]

\* the StorageRequest::SendBlock that send_block_to_storage sends
StorageSendBlock(mined) ==
    [MsgDefault EXCEPT !.to = StorageAddr, !.kind = "StorageRequest::SendBlock",
                       !.b_num = mined.block.header.b_num,
                       !.previous_hash = mined.block.header.previous_hash,
                       !.transactions = mined.block.transactions,
                       !.nonce = mined.nonce, !.mining_tx = mined.mining_transaction,
                       !.shutdown = mined.shutdown]

flood_list_to_partition(n) ==
    Sent({[MsgDefault EXCEPT !.to = a, !.kind = "MineRequest::SendPartitionList",
                             !.p_list = n.partition_list.pows] : a \in n.partition_list.addrs},
         FALSE)

\* get_mining_block().as_ref().unwrap()
flood_block_to_partition(n, r) ==
    IF ~IsSome(r.consensused.current_block) THEN Sent({}, TRUE)
    ELSE Sent({[MsgDefault EXCEPT
                   !.to = a, !.kind = "MineRequest::SendBlock",
                   !.b_num = Unwrap(r.consensused.current_block).header.b_num,
                   !.previous_hash = Unwrap(r.consensused.current_block).header.previous_hash,
                   !.transactions = Unwrap(r.consensused.current_block).transactions,
                   !.reward = r.consensused.current_reward] : a \in n.partition_list.addrs},
              FALSE)

flood_rand_num_to_requesters(n, r) ==
    Sent({[MsgDefault EXCEPT
              !.to = a, !.kind = "MineRequest::SendRandomNum",
              !.rnum = n.current_random_num,
              !.win_coinbases = r.consensused.last_mining_transaction_hashes] :
                 a \in n.request_list},
         FALSE)

\* two floods in a row: the second is not reached when the first panicked
Both(a, b) == IF a.panic THEN a ELSE Sent(a.msgs \cup b.msgs, b.panic)

\* the first full partition request proposes the initial item
InitialProposed(x, o) == Resp(x.n, o.r, x.reason, o.commits, o.panic)

handle_next_event_response(x) ==
    CASE x.panic -> x
      [] x.reason = "Received first full partition request" ->
            InitialProposed(x, propose_initial_item(x.r))
      [] x.reason = "Partition list is full" ->
            Resp(x.n, x.r, x.reason, x.commits,
                 Both(flood_list_to_partition(x.n), flood_block_to_partition(x.n, x.r)).panic)
      [] x.reason = "Received PoW successfully" ->
            Resp(send_block_to_storage(x.n), x.r, x.reason, x.commits, FALSE)
      [] x.reason = "Block committed shutdown" ->
            Resp(flood_closing_events(x.n), x.r, x.reason, x.commits, FALSE)
      [] OTHER -> x

\* receive_closing answering whoever sends Closing
receive_closing_any_peer(n, r, peer) ==
    IF n.shutdown_group \ {peer} # {}
    THEN Resp([n EXCEPT !.shutdown_group = @ \ {peer}], r, "Shutdown pending", <<>>, FALSE)
    ELSE Resp([n EXCEPT !.shutdown_group = @ \ {peer}], r, "Shutdown", <<>>, FALSE)

receive_closing(n, r, peer) ==
    IF peer \notin n.shutdown_group
    THEN Resp(n, r, NoResponse, <<>>, FALSE)
    ELSE IF n.shutdown_group \ {peer} # {}
    THEN Resp([n EXCEPT !.shutdown_group = @ \ {peer}], r, "Shutdown pending", <<>>, FALSE)
    ELSE Resp([n EXCEPT !.shutdown_group = @ \ {peer}], r, "Shutdown", <<>>, FALSE)

\* receive_partition_request leaving request_list_first_flood set
receive_partition_request_keep_flood(n, r, peer) ==
    Resp([n EXCEPT !.request_list = @ \cup {peer},
                   !.db.request_list = n.request_list \cup {peer}],
         r,
         IF n.request_list_first_flood = Some(Cardinality(n.request_list \cup {peer}))
         THEN "Received first full partition request"
         ELSE "Received partition request successfully",
         <<>>, FALSE)

receive_partition_request(n, r, peer) ==
    Resp([n EXCEPT !.request_list = @ \cup {peer},
                   !.db.request_list = n.request_list \cup {peer},
                   !.request_list_first_flood =
                       IF @ = Some(Cardinality(n.request_list \cup {peer})) THEN NoneOpt ELSE @],
         r,
         IF n.request_list_first_flood = Some(Cardinality(n.request_list \cup {peer}))
         THEN "Received first full partition request"
         ELSE "Received partition request successfully",
         <<>>, FALSE)

\* utils::get_partition_entry_key: the key of the entries, in their order
get_partition_entry_key(pows) == pows

\* the partition list after the entry of peer was pushed
PartitionPushed(n, r) ==
    IF Len(n.partition_list.pows) < PartitionFullSize
    THEN Resp(n, r, "Partition PoW received successfully", <<>>, FALSE)
    ELSE Resp([n EXCEPT !.partition_key = Some(get_partition_entry_key(n.partition_list.pows))], r,
              "Partition list is full", <<>>, FALSE)

\* receive_partition_entry closing the list one entry late
receive_partition_entry_one_late(n, r, peer, valid_pow) ==
    IF Len(n.partition_list.pows) > PartitionFullSize
    THEN Resp(n, r, "Partition list is already full", <<>>, FALSE)
    ELSE IF valid_pow /\ peer \notin n.partition_list.addrs
    THEN PartitionPushed([n EXCEPT !.partition_list.addrs = @ \cup {peer},
                                   !.partition_list.pows = Append(@, peer)], r)
    ELSE Resp(n, r, "PoW received is invalid", <<>>, FALSE)

\* valid_pow: the entry carries the address of peer and a valid PoW for the
\* current random number
receive_partition_entry(n, r, peer, valid_pow) ==
    IF Len(n.partition_list.pows) >= PartitionFullSize
    THEN Resp(n, r, "Partition list is already full", <<>>, FALSE)
    ELSE IF valid_pow /\ peer \notin n.partition_list.addrs
    THEN PartitionPushed([n EXCEPT !.partition_list.addrs = @ \cup {peer},
                                   !.partition_list.pows = Append(@, peer)], r)
    ELSE Resp(n, r, "PoW received is invalid", <<>>, FALSE)

\* validate_pow_block: the hash over the block, the coinbase and the nonce
\* meets the difficulty
validate_pow_block(b_num, coinbase, nonce) == (b_num + coinbase + nonce) % 2 = 0

\* the mined block made of what take_mining_block returned
MinedBlock(n, t, nonce, mining_transaction) ==
    [nonce |-> nonce, block |-> t.block, block_tx |-> t.block_tx,
     mining_transaction |-> mining_transaction,
     shutdown |-> n.coordiated_shudown <= t.block.header.b_num]

Mined(n, r, t, nonce, mining_transaction) ==
    Resp([n EXCEPT !.current_mined_block = Some(MinedBlock(n, t, nonce, mining_transaction))],
         [r EXCEPT !.consensused = t.c], "Received PoW successfully", <<>>, t.panic)

\* mining_block_mined leaving the mining block in the consensused state
mining_block_mined_not_taken(n, r, nonce, mining_transaction) ==
    Mined(n, r, [take_mining_block(r.consensused) EXCEPT !.c = r.consensused],
          nonce, mining_transaction)

mining_block_mined(n, r, nonce, mining_transaction) ==
    Mined(n, r, take_mining_block(r.consensused), nonce, mining_transaction)

\* get_mining_block() filtered by the block number and the partition list
PowMiningBlock(n, r, address, block_num) ==
    /\ IsSome(r.consensused.current_block)
    /\ block_num = Unwrap(r.consensused.current_block).header.b_num
    /\ address \in n.partition_list.addrs

\* the tokens a transaction pays: the sum of its outputs
TxPays(h) == TxTable[h].amount * Len(TxTable[h].outs)

receive_pow(n, r, address, block_num, nonce, coinbase) ==
    IF ~PowMiningBlock(n, r, address, block_num)
    THEN Resp(n, r, "Not block currently mined", <<>>, FALSE)
    ELSE IF ~TxTable[coinbase].coinbase
    THEN Resp(n, r, "Coinbase transaction invalid", <<>>, FALSE)
    ELSE IF Len(TxTable[coinbase].outs) = 0
    THEN Resp(n, r, NoResponse, <<>>, TRUE)
    ELSE IF TxTable[coinbase].amount # r.consensused.current_reward
    THEN Resp(n, r, "Coinbase transaction invalid", <<>>, FALSE)
    ELSE IF ~validate_pow_block(block_num, coinbase, nonce)
    THEN Resp(n, r, "Invalid PoW for block", <<>>, FALSE)
    ELSE mining_block_mined(n, r, nonce, coinbase)

\* naom tx_is_valid with the lookup of transactions_validator: every input
\* spends an entry of the committed UTXO set
tx_is_valid(h, base) == \A k \in DOMAIN TxTable[h].ins : TxTable[h].ins[k] \in DOMAIN base

transactions_validator(r, h) ==
    ~TxTable[h].coinbase /\ tx_is_valid(h, r.consensused.utxo_set.base)

\* the valid transactions are stored and appended to the local pool
TransactionsAdded(n, r, valid_tx, transactions_len) ==
    Resp([n EXCEPT !.db = store_local_transactions(@, valid_tx)],
         append_to_tx_pool(r, valid_tx),
         IF Cardinality(valid_tx) = 0 THEN "No valid transactions provided"
         ELSE IF Cardinality(valid_tx) < transactions_len
         THEN "Some transactions invalid. Adding valid transactions only"
         ELSE "Transactions added to tx pool",
         <<>>, FALSE)

receive_transactions(n, r, transactions) ==
    IF ~tx_pool_can_accept(r, Cardinality(transactions))
    THEN Resp(n, r, "Transaction pool for this compute node is full", <<>>, FALSE)
    ELSE TransactionsAdded(n, r, {h \in transactions : transactions_validator(r, h)},
                           Cardinality(transactions))

\* the node after resend_trigger_message with what it sent
Resent(n, sent) == [n |-> n, msgs |-> sent.msgs, panic |-> sent.panic]

\* resend_trigger_message moving the mined block into the request instead of
\* cloning it
resend_trigger_message_take_mined_block(n, r) ==
    IF IsSome(n.current_mined_block)
    THEN Resent([send_block_to_storage(n) EXCEPT !.current_mined_block = NoneOpt],
                Sent({StorageSendBlock(Unwrap(n.current_mined_block))}, FALSE))
    ELSE IF IsSome(n.partition_key)
    THEN Resent(n, Both(flood_list_to_partition(n), flood_block_to_partition(n, r)))
    ELSE IF IsSome(r.consensused.current_block)
    THEN Resent(n, flood_rand_num_to_requesters(n, r))
    ELSE Resent(n, Sent({}, FALSE))

\* resend_trigger_message looking at the partition key first
resend_trigger_message_partition_first(n, r) ==
    IF IsSome(n.partition_key)
    THEN Resent(n, Both(flood_list_to_partition(n), flood_block_to_partition(n, r)))
    ELSE IF IsSome(n.current_mined_block)
    THEN Resent(send_block_to_storage(n),
                Sent({StorageSendBlock(Unwrap(n.current_mined_block))}, FALSE))
    ELSE IF IsSome(r.consensused.current_block)
    THEN Resent(n, flood_rand_num_to_requesters(n, r))
    ELSE Resent(n, Sent({}, FALSE))

resend_trigger_message(n, r) ==
    IF IsSome(n.current_mined_block)
    THEN Resent(send_block_to_storage(n),
                Sent({StorageSendBlock(Unwrap(n.current_mined_block))}, FALSE))
    ELSE IF IsSome(n.partition_key)
    THEN Resent(n, Both(flood_list_to_partition(n), flood_block_to_partition(n, r)))
    ELSE IF IsSome(r.consensused.current_block)
    THEN Resent(n, flood_rand_num_to_requesters(n, r))
    ELSE Resent(n, Sent({}, FALSE))

\* the block was already committed: the trigger message is sent again
BlockResent(r, x) == Resp(x.n, r, NoResponse, <<>>, x.panic)

\* propose_block_with_last_info returned false
BlockNotProposed(n, r, b_num) ==
    IF r.consensused.tx_current_block_num = Some(b_num + 1)
    THEN BlockResent(r, resend_trigger_message(n, r))
    ELSE IF ~IsSome(r.consensused.tx_current_block_num)
    THEN Resp(n, r, NoResponse, <<>>, TRUE)
    ELSE Resp(n, r, NoResponse,
              re_propose_uncommitted_current_b_num(
                  r.proposed_in_flight, Unwrap(r.consensused.tx_current_block_num)),
              FALSE)

BlockStored(n, o, b_num) ==
    IF o.ret THEN Resp(n, o.r, "Received block stored", o.commits, FALSE)
    ELSE BlockNotProposed(n, o.r, b_num)

receive_block_stored(n, r, peer, previous_block_info) ==
    IF peer # StorageAddr
    THEN Resp(n, r, "Received block stored not from our storage peer", <<>>, FALSE)
    ELSE BlockStored(n, propose_block_with_last_info(r, previous_block_info),
                     previous_block_info.block_num)

\* handle_local_event(LocalEvent::CoordinatedShutdown(shutdown))
handle_local_event(n, r, shutdown) ==
    Resp([n EXCEPT !.coordiated_shudown = shutdown], r, "Start Coordianted shutdown",
         <<>>, FALSE)

\* the transactions of the committed item, deleted from the database
CommittedTxs(raft_commit) ==
    IF raft_commit.data = "Proposed" /\ raft_commit.item.type = "Transactions"
    THEN raft_commit.item.txs ELSE {}

\* the node part of handle_committed_data for the outcome o of CommitStep
handle_committed_data(n, o, raft_commit) ==
    CASE o.panic -> Resp(n, o.r, "panic", o.commits, TRUE)
      [] o.ret = "FirstBlock" ->
            Resp(reset_mining_block_process(n), o.r, "First Block committed", o.commits, FALSE)
      [] o.ret = "Block" ->
            Resp(reset_mining_block_process(n), o.r,
                 IF is_shutdown_on_commit(o.r) THEN "Block committed shutdown"
                 ELSE "Block committed",
                 o.commits, FALSE)
      [] o.ret = "Snapshot" -> Resp(n, o.r, "Snapshot applied", o.commits, FALSE)
      [] o.ret = "Transactions" ->
            Resp([n EXCEPT !.db = delete_local_transactions(@, CommittedTxs(raft_commit))],
                 o.r, "Transactions committed", o.commits, FALSE)
      [] OTHER -> Resp(n, o.r, NoResponse, o.commits, FALSE)

(***************************************************************************)
(* One compute node of a group of two, its storage node, its miners and    *)
(* the commits its peer contributes                                        *)
(***************************************************************************)
MaxNodeLog == 4
MaxRestarts == 1
\* the SendTransactions requests of the users
TxRequests == {{3}, {4, 5}}
\* the transactions the peer proposes
PeerTxs == {4}
PowBlockNums == {0, 1}
Nonces == {1, 2}
Coinbases == {3, 7, 8, 18}
ShutdownAt == {0, 1}

NodeInit ==
    /\ rafts = [i \in {1} |-> RaftOfRun(Db_default, NoneOpt)]
    /\ raft_log = <<>>
    /\ applied = [i \in {1} |-> [count |-> 0, panicked |-> FALSE]]
    /\ snap_src = [i \in {1} |-> 0]
    /\ node = load_local_db(ComputeNode_new(Db_default, NoneOpt, 0))
    /\ utxo = TrackedUtxoSet_default
    /\ utxo_ops = 0
    /\ uni = UniIdle
    /\ uni_res = UniResIdle
    /\ uni_ver = UniVerIdle

\* the node has handled an event: x is the outcome after
\* handle_next_event_response and last what is recorded about the event
NodeHandled(x, last) ==
    /\ ~applied[1].panicked
    /\ Len(raft_log) + Len(x.commits) <= MaxNodeLog
    /\ rafts' = [rafts EXCEPT ![1] = x.r]
    /\ raft_log' = raft_log \o x.commits
    /\ applied' = [applied EXCEPT ![1].panicked = x.panic]
    /\ node' = [x.n EXCEPT !.last = last]
    /\ UNCHANGED <<snap_src, utxo_vars, uni_vars>>

\* what the event altered of the mined block, the mining block and the
\* partition list
MiningChanged(x) ==
    \/ x.n.current_mined_block # node.current_mined_block
    \/ x.n.partition_list # node.partition_list
    \/ x.r.consensused.current_block # rafts[1].consensused.current_block
    \/ x.r.consensused.current_block_tx # rafts[1].consensused.current_block_tx

\* what the event altered of the pools
PoolsChanged(x) ==
    \/ x.r.local_tx_pool # rafts[1].local_tx_pool
    \/ x.r.proposed_tx_pool_len # rafts[1].proposed_tx_pool_len
    \/ x.r.consensused.tx_pool # rafts[1].consensused.tx_pool
    \/ x.n.db.local_txs # node.db.local_txs

NodeRequested(event, x) == NodeHandled(x, Last(event, x.reason))

\* the partition request entered in the history of the run
PartitionCounted(x) ==
    [x EXCEPT !.n.first_floods =
                  @ + (IF x.reason = "Received first full partition request" THEN 1 ELSE 0),
              !.n.at_minimum = @ \/ Cardinality(x.n.request_list) = MinimumMinerPoolLen]

NodePartitionRequestHandled(peer, x) ==
    NodeHandled(PartitionCounted(x), [Last("SendPartitionRequest", x.reason) EXCEPT
        !.peer = peer, !.repeat = node.at_minimum])

NodeReceivePartitionRequest ==
    \E peer \in Miners :
        NodePartitionRequestHandled(peer,
            handle_next_event_response(receive_partition_request(node, rafts[1], peer)))

NodeReceivePartitionEntry ==
    \E peer \in Miners, valid_pow \in BOOLEAN :
        NodeRequested("SendPartitionEntry",
            handle_next_event_response(
                receive_partition_entry(node, rafts[1], peer, valid_pow)))

\* the submission fails one of the checks of a SendPoW
PoWBad(address, block_num, nonce, coinbase) ==
    \/ address \notin node.partition_list.addrs
    \/ ~TxTable[coinbase].coinbase
    \/ TxPays(coinbase) # rafts[1].consensused.current_reward
    \/ ~validate_pow_block(block_num, coinbase, nonce)

NodePoWHandled(block_num, bad, x) ==
    NodeHandled(x, [Last("SendPoW", x.reason) EXCEPT
        !.bad = bad,
        !.stale = ~(/\ IsSome(rafts[1].consensused.current_block)
                    /\ Unwrap(rafts[1].consensused.current_block).header.b_num = block_num),
        !.repeat = /\ IsSome(node.current_mined_block)
                   /\ Unwrap(node.current_mined_block).block.header.b_num = block_num,
        !.changed = MiningChanged(x)])

NodeReceivePoW ==
    \E address \in Miners, block_num \in PowBlockNums, nonce \in Nonces, coinbase \in Coinbases :
        NodePoWHandled(block_num, PoWBad(address, block_num, nonce, coinbase),
            handle_next_event_response(
                receive_pow(node, rafts[1], address, block_num, nonce, coinbase)))

NodeTransactionsHandled(transactions, x) ==
    NodeHandled(x, [Last("SendTransactions", x.reason) EXCEPT
        !.over = combined_tx_pool_len(rafts[1]) + Cardinality(transactions) > TX_POOL_LIMIT,
        !.changed = PoolsChanged(x)])

NodeReceiveTransactions ==
    \E transactions \in TxRequests :
        NodeTransactionsHandled(transactions,
            handle_next_event_response(receive_transactions(node, rafts[1], transactions)))

\* what the storage node answers to the SendBlock it received
StorageInfo(sent) ==
    [block_hash |-> "h", block_num |-> sent.b_num, mining_transactions |-> {sent.mining_tx},
     shutdown |-> sent.shutdown]

NodeReceiveBlockStored ==
    /\ IsSome(node.storage_sent)
    /\ NodeRequested("SendBlockStored",
           handle_next_event_response(
               receive_block_stored(node, rafts[1], StorageAddr,
                                    StorageInfo(Unwrap(node.storage_sent)))))

NodeCoordinatedShutdown ==
    \E shutdown \in ShutdownAt :
        /\ node.coordiated_shudown # shutdown
        /\ NodeRequested("CoordinatedShutdown",
               handle_next_event_response(handle_local_event(node, rafts[1], shutdown)))

\* the transaction timeout branch of the event loop
TimeoutHandled(o) == Resp(node, o.r, NoResponse, o.commits, o.panic)

NodeTimeout ==
    /\ rafts[1].local_tx_pool # {} \/ rafts[1].local_tx_druid_pool # <<>>
    /\ NodeRequested("timeout", TimeoutHandled(timeout_propose_transactions(rafts[1])))

\* the next commit of Raft: the snapshot it restarted from, then the log
NextIndex ==
    IF node.boot_snapshot THEN Unwrap(rafts[1].snapshot).idx ELSE applied[1].count + 1

NextCommit ==
    IF node.boot_snapshot THEN CommitSnapshot(Some(Unwrap(rafts[1].snapshot).data))
    ELSE raft_log[applied[1].count + 1]

ShutdownCommit(raft_commit, o) ==
    /\ raft_commit.data = "Proposed"
    /\ raft_commit.item.type = "Block"
    /\ raft_commit.item.info.shutdown
    /\ o.ret = "Block"
    /\ ~IsSome(rafts[1].consensused.special_handling)

NodeCommitHandled(index, raft_commit, o, x) ==
    /\ ~applied[1].panicked
    /\ Len(raft_log) + Len(x.commits) <= MaxNodeLog
    /\ rafts' = [rafts EXCEPT ![1] = x.r]
    /\ raft_log' = raft_log \o x.commits
    /\ applied' = [applied EXCEPT ![1] = [count |-> index, panicked |-> x.panic]]
    /\ node' = [x.n EXCEPT !.boot_snapshot = FALSE,
                           !.last = [Last("commit", x.reason) EXCEPT
                                        !.shutdown_commit = ShutdownCommit(raft_commit, o)]]
    /\ UNCHANGED <<snap_src, utxo_vars, uni_vars>>

NodeCommitted(index, raft_commit, o) ==
    NodeCommitHandled(index, raft_commit, o,
        handle_next_event_response(handle_committed_data(node, o, raft_commit)))

NodeReceivedCommit ==
    /\ node.boot_snapshot \/ applied[1].count < Len(raft_log)
    /\ NodeCommitted(NextIndex, NextCommit, CommitStep(rafts[1], NextCommit, NextIndex))

\* the process is started again on its database and its Raft store
NodeStarted(n, snapshot) ==
    /\ rafts' = [rafts EXCEPT ![1] = RaftOfRun(node.db, snapshot)]
    /\ applied' = [applied EXCEPT ![1] =
                      [count |-> IF IsSome(snapshot) THEN Unwrap(snapshot).idx ELSE 0,
                       panicked |-> FALSE]]
    /\ node' = [n EXCEPT !.boot_snapshot = IsSome(snapshot)]

NodeRestart ==
    /\ node.restarts < MaxRestarts
    /\ NodeStarted(load_local_db(ComputeNode_new(node.db, node.storage_sent, node.restarts + 1)),
                   rafts[1].snapshot)
    /\ UNCHANGED <<raft_log, snap_src, utxo_vars, uni_vars>>

\* the votes of the peer: for the first block and for the block the storage
\* nodes stored
PeerVotes ==
    {ItemFirstBlock(SeedUtxo)}
    \cup (IF IsSome(node.storage_sent)
          THEN {ItemBlock(StorageInfo(Unwrap(node.storage_sent)))} ELSE {})

PeerKey == [proposer_id |-> 2, proposal_id |-> Len(raft_log) + 1, key_run |-> 0]

\* an item the peer proposed is committed
PeerCommitted(item) ==
    /\ Len(raft_log) < MaxNodeLog
    /\ \A k \in DOMAIN raft_log :
           ~(raft_log[k].key.proposer_id = 2 /\ raft_log[k].item = item)
    /\ raft_log' = Append(raft_log, CommitProposed(PeerKey, item))
    /\ UNCHANGED <<rafts, applied, snap_src, node, utxo_vars, uni_vars>>

NodePeerVote == \E item \in PeerVotes : PeerCommitted(item)

NodePeerTransactions == \E h \in PeerTxs : PeerCommitted(ItemTransactions({h}))

\* the mining flow of the node in one run
NodeNext ==
    \/ NodeReceivePartitionRequest \/ NodeReceivePartitionEntry \/ NodeReceivePoW
    \/ NodeReceiveBlockStored \/ NodeCoordinatedShutdown
    \/ NodeReceivedCommit \/ NodePeerVote

SpecNode == NodeInit /\ [][NodeNext]_vars

\* the transaction flow of the node over its restarts
PoolNext ==
    \/ NodeReceivePartitionRequest \/ NodeReceiveTransactions \/ NodeTimeout
    \/ NodeReceivedCommit \/ NodeRestart \/ NodePeerVote \/ NodePeerTransactions

SpecPool == NodeInit /\ [][PoolNext]_vars

(***************************************************************************)
(* The mining pipeline of a compute node that is its whole Raft group      *)
(***************************************************************************)
MaxPipeLog == 5
PipeMiners == {1, 2}
\* the WinningPoWInfo a miner may submit
PowInfos ==
    {[nonce |-> 1, coinbase |-> 7, d_value |-> 0],
     [nonce |-> 2, coinbase |-> 8, d_value |-> 0],
     [nonce |-> 3, coinbase |-> 7, d_value |-> 1]}

\* node tells whether a WinningPoW of a cohort member was committed, and
\* holds what get_mined_block_extra_info returned when it was last called
\* on the present pipeline
PipeIdle == [valid_committed |-> FALSE, asked |-> FALSE, extra |-> ExtraInfoOf(NoneOpt)]

PipeInit ==
    /\ rafts = [i \in {1} |-> ComputeRaft_new(1, 1, SeedUtxo, 0)]
    /\ raft_log = <<>>
    /\ applied = [i \in {1} |-> [count |-> 0, panicked |-> FALSE]]
    /\ snap_src = [i \in {1} |-> 0]
    /\ node = PipeIdle
    /\ utxo = TrackedUtxoSet_default
    /\ utxo_ops = 0
    /\ uni = UniIdle
    /\ uni_res = UniResIdle
    /\ uni_ver = UniVerIdle

\* a proposal of the node reaches the log
PipeProposed(o) ==
    /\ ~applied[1].panicked
    /\ ~o.panic
    /\ Len(raft_log) + Len(o.commits) <= MaxPipeLog
    /\ \A k \in DOMAIN o.commits : \A j \in DOMAIN raft_log : raft_log[j].item # o.commits[k].item
    /\ rafts' = [rafts EXCEPT ![1] = o.r]
    /\ raft_log' = raft_log \o o.commits
    /\ UNCHANGED <<applied, snap_src, node, utxo_vars, uni_vars>>

PipeProposeInitialItem == PipeProposed(propose_initial_item(rafts[1]))

propose_mining_participant(r, entry) == propose_item(r, ItemMiningParticipant(entry), NoneOpt)

propose_winning_pow(r, addr, info) == propose_item(r, ItemWinningPoW(addr, info), NoneOpt)

PipeProposeMiningParticipant ==
    \E entry \in PipeMiners : PipeProposed(propose_mining_participant(rafts[1], entry))

PipeProposeWinningPoW ==
    \E addr \in PipeMiners, info \in PowInfos :
        PipeProposed(propose_winning_pow(rafts[1], addr, info))

\* the committed item is the WinningPoW of a member of the cohort
ValidWinningPoW(raft_commit) ==
    /\ raft_commit.data = "Proposed"
    /\ raft_commit.item.type = "WinningPoW"
    /\ raft_commit.item.addr
           \in SeqToSet(rafts[1].consensused.first_block_pipeline.participants)

PipeCommitted(index, raft_commit, o) ==
    /\ Len(raft_log) + Len(o.commits) <= MaxPipeLog
    /\ rafts' = [rafts EXCEPT ![1] = o.r]
    /\ raft_log' = raft_log \o o.commits
    /\ applied' = [applied EXCEPT ![1] = [count |-> index, panicked |-> o.panic]]
    /\ node' = [node EXCEPT !.asked = FALSE,
                            !.valid_committed = @ \/ ValidWinningPoW(raft_commit)]
    /\ UNCHANGED <<snap_src, utxo_vars, uni_vars>>

PipeReceivedCommit ==
    /\ ~applied[1].panicked
    /\ applied[1].count < Len(raft_log)
    /\ PipeCommitted(applied[1].count + 1, raft_log[applied[1].count + 1],
                     CommitStep(rafts[1], raft_log[applied[1].count + 1], applied[1].count + 1))

\* the extra info of the mined block is asked for
PipeGetMinedBlockExtraInfo ==
    /\ ~applied[1].panicked
    /\ ~node.asked
    /\ node' = [node EXCEPT !.asked = TRUE,
                            !.extra = get_mined_block_extra_info(rafts[1].consensused)]
    /\ UNCHANGED <<rafts, raft_log, applied, snap_src, utxo_vars, uni_vars>>

PipeNext ==
    \/ PipeProposeInitialItem \/ PipeProposeMiningParticipant \/ PipeProposeWinningPoW
    \/ PipeReceivedCommit \/ PipeGetMinedBlockExtraInfo

SpecPipeline == PipeInit /\ [][PipeNext]_vars

\* e is before f in the order of the selection: the lower distance, then the
\* lower coinbase hash, then the lower address
SelectedBefore(e, f) ==
    \/ e.info.d_value < f.info.d_value
    \/ e.info.d_value = f.info.d_value /\ e.info.coinbase < f.info.coinbase
    \/ /\ e.info.d_value = f.info.d_value
       /\ e.info.coinbase = f.info.coinbase
       /\ e.addr < f.addr

\* the accepted entries no other accepted entry is before
PipeWinners ==
    {e \in rafts[1].consensused.first_block_pipeline.winning_pow :
        \A f \in rafts[1].consensused.first_block_pipeline.winning_pow :
            f = e \/ SelectedBefore(e, f)}

C7_PoWIdempotence ==
    node.last.event = "SendPoW" =>
        /\ node.last.repeat => ~node.last.changed
        /\ node.last.stale =>
              (node.last.reason = "Not block currently mined" /\ ~node.last.changed)

\* a PoW is submitted again for the block whose mined block the node holds
C7_Witness ==
    /\ node.last.event = "SendPoW"
    /\ node.last.repeat
    /\ IsSome(node.current_mined_block)
    /\ IsSome(node.storage_sent)
    /\ node.last.reason = "Not block currently mined"

\* C9: the combined pool length (local pool + proposed in flight + consensused
\* tx_pool) never exceeds TX_POOL_LIMIT, and a SendTransactions that would
\* push it above the limit is answered "Transaction pool for this compute
\* node is full" and changes no pool.
C9_TxPoolCap ==
    /\ combined_tx_pool_len(rafts[1]) <= TX_POOL_LIMIT
    /\ (node.last.event = "SendTransactions" /\ node.last.over) =>
          /\ node.last.reason = "Transaction pool for this compute node is full"
          /\ ~node.last.changed

\* C10: a block mined while coordiated_shudown <= b_num is sent to storage
\* with shutdown = true; when a shutdown BlockStoredInfo is applied by a node
\* whose special_handling is None, special_handling becomes Shutdown, the
\* node answers "Block committed shutdown" and Closing has been flooded
\* exactly once.
C10_ShutdownBoundary ==
    /\ (/\ node.last.event = "SendPoW"
        /\ node.last.reason = "Received PoW successfully"
        /\ node.coordiated_shudown <= Unwrap(node.storage_sent).b_num)
           => Unwrap(node.storage_sent).shutdown
    /\ node.last.shutdown_commit =>
          /\ rafts[1].consensused.special_handling = Some("Shutdown")
          /\ node.last.reason = "Block committed shutdown"
          /\ node.closing_floods = 1

(***************************************************************************)
(* The commit of a shutdown block                                          *)
(***************************************************************************)
\* replica i processes the Block commit that brings a shutdown
\* BlockStoredInfo to its vote threshold while special_handling is None
ShutdownApplied(i) ==
    /\ applied'[i].count = applied[i].count + 1
    /\ snap_src'[i] = snap_src[i]
    /\ applied'[i].count \in DOMAIN raft_log
    /\ raft_log[applied'[i].count].data = "Proposed"
    /\ raft_log[applied'[i].count].item.type = "Block"
    /\ raft_log[applied'[i].count].item.info.shutdown
    /\ ~IsSome(rafts[i].consensused.special_handling)
    /\ rafts'[i].consensused.special_handling = Some("Shutdown")

\* what the commit of a shutdown block leaves alone, from a to b
ShutdownFrame(a, b) ==
    /\ b.utxo_set = a.utxo_set
    /\ b.current_circulation = a.current_circulation
    /\ b.current_reward = a.current_reward
    /\ b.tx_current_block_previous_hash = a.tx_current_block_previous_hash
    /\ b.tx_current_block_num = a.tx_current_block_num
    /\ b.last_mining_transaction_hashes = a.last_mining_transaction_hashes
    /\ b.tx_pool = a.tx_pool
    /\ b.tx_druid_pool = a.tx_druid_pool
    /\ ~IsSome(b.current_block)
    /\ b.current_block_tx = {}

\* C11: the handling of the commit that brings a shutdown Block(stored_info)
\* to its vote threshold while special_handling is None sets Shutdown and
\* leaves the UTXO set, current_circulation, current_reward,
\* tx_current_block_previous_hash, last_mining_transaction_hashes, tx_pool
\* and tx_druid_pool as they were, and there is no mining block after it.
C11_ShutdownCommitFrame ==
    [][\A i \in DOMAIN rafts :
          ShutdownApplied(i) => ShutdownFrame(rafts[i].consensused, rafts'[i].consensused)]_vars

(***************************************************************************)
(* The end state of a coordinated shutdown                                 *)
(***************************************************************************)
\* the number of the block whose stored info the last commit carried
CommittedBlockNum == raft_log[applied[1].count].item.info.block_num

\* the compute node and its storage node stand at block n
StandsAt(n) ==
    /\ rafts[1].consensused.tx_current_block_num = Some(n)
    /\ IsSome(node.storage_sent)
    /\ Unwrap(node.storage_sent).b_num = n
    /\ ~IsSome(rafts[1].consensused.current_block)

\* the node runs no further round and has started the exchange of Closing
\* that ends in the Shutdown response
RoundsStopped ==
    /\ ~applied[1].panicked
    /\ rafts[1].shutdown_no_commit_process
    /\ node.closing_floods = 1

\* C12: once the shutdown block N is committed, the compute node's committed
\* current block number and the last block its storage node stored are N, no
\* block above N is being mined, the node processes no further commit and
\* has flooded the Closing that leads to the Shutdown response.
C12_ShutdownEndState ==
    node.last.shutdown_commit => (StandsAt(CommittedBlockNum) /\ RoundsStopped)

(***************************************************************************)
(* The retry of the trigger message                                        *)
(***************************************************************************)
\* the state of the compute node: what it holds apart from the record of
\* its last event and from what its storage node received
NodeState(n) == [n EXCEPT !.last = Last("", ""), !.storage_sent = NoneOpt]

\* resend_trigger_message was invoked: x is the node after it with what it sent
NodeResent(x) ==
    NodeHandled(Resp(x.n, rafts[1], NoResponse, <<>>, x.panic),
                [Last("resend_trigger_message", NoResponse) EXCEPT
                    !.repeat = node.last.event = "resend_trigger_message",
                    !.changed = NodeState(x.n) # NodeState(node),
                    !.msgs = x.msgs])

NodeResendTriggerMessage == NodeResent(resend_trigger_message(node, rafts[1]))

\* the mining flow of the node with the retries of its trigger message
ResendNext ==
    \/ NodeReceivePartitionRequest \/ NodeReceivePartitionEntry \/ NodeReceivePoW
    \/ NodeReceiveBlockStored \/ NodeReceivedCommit \/ NodePeerVote
    \/ NodeResendTriggerMessage

SpecResend == NodeInit /\ [][ResendNext]_vars

\* C13: resend_trigger_message leaves the state of the compute node as it
\* was, and invoked again in that state it sends the same messages to the
\* same peers.
C13_RetryIdempotence ==
    /\ [](node.last.event = "resend_trigger_message" => ~node.last.changed)
    /\ [][(/\ node.last.event = "resend_trigger_message"
           /\ node'.last.event = "resend_trigger_message")
              => node'.last.msgs = node.last.msgs]_vars

\* the mined block was sent to storage again, twice in a row
C13_Witness ==
    /\ node.last.event = "resend_trigger_message"
    /\ node.last.repeat
    /\ IsSome(node.current_mined_block)
    /\ node.last.msgs = {StorageSendBlock(Unwrap(node.current_mined_block))}

(***************************************************************************)
(* Block generation: a compute node that is its whole Raft group processes *)
(* the commits of FirstBlock, Transactions, DruidTransactions and Block    *)
(***************************************************************************)
MaxGenCommits == 6
\* the transactions of the committed Transactions items
GenTxSets == {{3}, {4}, {5}, {6}, {9, 10}, {3, 5}, {3, 4}}
\* the druid groups of the committed DruidTransactions items
GenDruidGroups == {{11, 12}, {13, 14}, {15, 16}, {17}}
\* the initial UTXO sets the node may be configured with
GenSeeds == {SeedUtxo, {1, 2, 8}}

\* node holds what the last commit found: the pools and the UTXO set before
\* it, the initial UTXO set agreed on, and what was generated
GenIdle ==
    [tx_pool |-> {}, tx_druid_pool |-> <<>>, base |-> {}, initial_utxo_txs |-> {},
     generated |-> "None", panic |-> FALSE]

GenInit ==
    /\ \E seed \in GenSeeds : rafts = [i \in {1} |-> ComputeRaft_new(1, 1, seed, 0)]
    /\ raft_log = <<>>
    /\ applied = [i \in {1} |-> [count |-> 0, panicked |-> FALSE]]
    /\ snap_src = [i \in {1} |-> 0]
    /\ node = GenIdle
    /\ utxo = TrackedUtxoSet_default
    /\ utxo_ops = 0
    /\ uni = UniIdle
    /\ uni_res = UniResIdle
    /\ uni_ver = UniVerIdle

GenKey == [proposer_id |-> 1, proposal_id |-> applied[1].count + 1, key_run |-> 0]

\* the node has processed the commit of item with outcome o
GenCommitted(item, o) ==
    /\ rafts' = [rafts EXCEPT ![1] = o.r]
    /\ applied' = [applied EXCEPT ![1] = [count |-> @.count + 1, panicked |-> o.panic]]
    /\ node' = [tx_pool |-> rafts[1].consensused.tx_pool,
                tx_druid_pool |-> rafts[1].consensused.tx_druid_pool,
                base |-> DOMAIN rafts[1].consensused.utxo_set.base,
                initial_utxo_txs |-> IF item.type = "FirstBlock" THEN item.txs ELSE {},
                generated |-> IF o.ret \in {"FirstBlock", "Block"} THEN o.ret ELSE "None",
                panic |-> o.panic]
    /\ UNCHANGED <<raft_log, snap_src, utxo_vars, uni_vars>>

GenReceivedCommit(item) ==
    /\ ~applied[1].panicked
    /\ applied[1].count < MaxGenCommits
    /\ GenCommitted(item, CommitStep(rafts[1], CommitProposed(GenKey, item), applied[1].count + 1))

\* the initial proposal of the node is committed
GenCommitFirstBlock ==
    GenReceivedCommit(ItemFirstBlock(Unwrap(rafts[1].local_initial_proposal).item.txs))

GenCommitTransactions == \E txs \in GenTxSets : GenReceivedCommit(ItemTransactions(txs))

\* a druid group is committed once it is complete: no group twice
GenCommitDruidTransactions ==
    \E g \in GenDruidGroups :
        /\ g \notin SeqToSet(rafts[1].consensused.tx_druid_pool)
        /\ g \cap rafts[1].consensused.current_block_tx = {}
        /\ GenReceivedCommit(ItemDruidTransactions(<<g>>))

\* the stored info of the block being mined
GenStoredInfo ==
    [block_hash |-> "h", block_num |-> Unwrap(rafts[1].consensused.tx_current_block_num),
     mining_transactions |-> {7}, shutdown |-> FALSE]

GenCommitBlock ==
    /\ IsSome(rafts[1].consensused.tx_current_block_num)
    /\ GenReceivedCommit(ItemBlock(GenStoredInfo))

GenNext ==
    \/ GenCommitFirstBlock \/ GenCommitTransactions \/ GenCommitDruidTransactions
    \/ GenCommitBlock

SpecGen == GenInit /\ [][GenNext]_vars

\* the last commit was a Block commit and generate_block built a mining block
GenBlockDone == node.generated = "Block" /\ ~node.panic

\* the transactions of the mining block
GenBlockTxs == SeqToSet(Unwrap(rafts[1].consensused.current_block).transactions)

\* the transactions of pool that spend the outpoint op
Spenders(op, pool) == {h \in pool : op \in SeqToSet(TxTable[h].ins)}

\* the outpoints several transactions of pool spend
DoubleSpent(pool) == {op \in AllOutPoints \cup {<<9, 0>>} : Cardinality(Spenders(op, pool)) >= 2}

FirstOf(S) == CHOOSE h \in S : \A g \in S : h <= g

\* the UTXO set generate_block found: the committed one with the outputs of
\* the mining transactions of the stored block
GenBaseAtGeneration == node.base \cup UNION {OutPointsOfTx(h) : h \in {7}}

\* no two transactions of the block spend the same outpoint and every
\* outpoint spent was in the UTXO set when the block was generated
GenBlockSpendsOnce ==
    /\ \A g \in GenBlockTxs, h \in GenBlockTxs :
           g # h => SeqToSet(TxTable[g].ins) \cap SeqToSet(TxTable[h].ins) = {}
    /\ \A h \in GenBlockTxs : SeqToSet(TxTable[h].ins) \subseteq GenBaseAtGeneration
    /\ \A h \in GenBlockTxs :
           SeqToSet(TxTable[h].ins) \cap DOMAIN rafts[1].consensused.utxo_set.base = {}

\* C14 as stated: of the transactions of tx_pool spending one outpoint of the
\* UTXO set (no druid group pending) exactly the first in hash order is in
\* the block generated, the others have left tx_pool and the outpoint has
\* left the UTXO set; no block holds two transactions spending the same
\* outpoint nor one spending an outpoint that was not in the UTXO set.
C14_DoubleSpendPruning ==
    GenBlockDone =>
        /\ \A op \in DoubleSpent(node.tx_pool) \cap
                        (IF node.tx_druid_pool = <<>> THEN GenBaseAtGeneration ELSE {}) :
              /\ Spenders(op, node.tx_pool) \cap GenBlockTxs
                     = {FirstOf(Spenders(op, node.tx_pool))}
              /\ Spenders(op, node.tx_pool) \cap rafts[1].consensused.tx_pool = {}
              /\ op \notin DOMAIN rafts[1].consensused.utxo_set.base
        /\ GenBlockSpendsOnce

\* the spender h of op was kept by generate_block: it is in the block and op
\* has left the UTXO set, or the block was filled by BLOCK_SIZE_IN_TX
\* transactions of tx_pool before it and it waits in tx_pool with op unspent
KeptSpender(op, h) ==
    \/ /\ h \in GenBlockTxs
       /\ op \notin DOMAIN rafts[1].consensused.utxo_set.base
    \/ /\ h \in rafts[1].consensused.tx_pool
       /\ h \notin GenBlockTxs
       /\ op \in DOMAIN rafts[1].consensused.utxo_set.base
       /\ Cardinality({g \in GenBlockTxs \cap node.tx_pool : g < h}) >= BLOCK_SIZE_IN_TX

\* C14 amended: of the transactions of tx_pool spending one outpoint at most
\* one is kept, the others leave tx_pool; the one kept is in the block, with
\* the outpoint removed from the UTXO set, or waits in tx_pool behind a full
\* block; with no druid group pending and the outpoint in the UTXO set, the
\* first spender in hash order is the one kept when it spends nothing else;
\* no block holds two transactions spending the same outpoint nor one
\* spending an outpoint that was not in the UTXO set.
C14_DoubleSpendPruningAmended ==
    GenBlockDone =>
        /\ \A op \in DoubleSpent(node.tx_pool) :
              /\ Cardinality(Spenders(op, node.tx_pool)
                     \cap (GenBlockTxs \cup rafts[1].consensused.tx_pool)) <= 1
              /\ \A h \in Spenders(op, node.tx_pool)
                              \cap (GenBlockTxs \cup rafts[1].consensused.tx_pool) :
                     KeptSpender(op, h)
              /\ (/\ node.tx_druid_pool = <<>>
                  /\ op \in GenBaseAtGeneration
                  /\ TxTable[FirstOf(Spenders(op, node.tx_pool))].ins = <<op>>)
                    => KeptSpender(op, FirstOf(Spenders(op, node.tx_pool)))
        /\ GenBlockSpendsOnce

\* two pairs of double spenders were in tx_pool: of the first pair one is in
\* the block, of the second the first waits in tx_pool behind the full block
C14_Witness ==
    /\ GenBlockDone
    /\ node.tx_pool = {3, 4, 5, 9, 10}
    /\ GenBlockTxs = {3, 5}
    /\ rafts[1].consensused.tx_pool = {9}

(***************************************************************************)
(* Druid groups                                                            *)
(***************************************************************************)
InputsOfTx(h) == SeqToSet(TxTable[h].ins)

GroupInputs(group) == UNION {InputsOfTx(h) : h \in group}

\* every input of the group is available and no two of its transactions
\* spend the same outpoint
GroupSpendable(group, available) ==
    /\ GroupInputs(group) \subseteq available
    /\ \A g \in group, h \in group : g # h => InputsOfTx(g) \cap InputsOfTx(h) = {}

\* the transactions of the groups that are spendable in pool order, each
\* group consuming its inputs
RECURSIVE AcceptedDruidTxs(_, _)
AcceptedDruidTxs(groups, available) ==
    IF groups = <<>> THEN {}
    ELSE IF GroupSpendable(Head(groups), available)
    THEN Head(groups) \cup AcceptedDruidTxs(Tail(groups), available \ GroupInputs(Head(groups)))
    ELSE AcceptedDruidTxs(Tail(groups), available)

DruidTxs == UNION GenDruidGroups

\* C15: of the druid groups of tx_druid_pool, taken in pool order, the block
\* generated holds every transaction of each group whose inputs were all in
\* the UTXO set and unconsumed, and no transaction of any other group; only
\* the transactions of the block consumed outpoints of the UTXO set; a
\* tx_pool transaction spending an outpoint of an accepted group is neither
\* in the block nor in tx_pool any more; tx_druid_pool is empty.
C15_DruidAtomicity ==
    GenBlockDone =>
        /\ GenBlockTxs \cap DruidTxs = AcceptedDruidTxs(node.tx_druid_pool, GenBaseAtGeneration)
        /\ \A op \in GenBaseAtGeneration \ DOMAIN rafts[1].consensused.utxo_set.base :
               \E h \in GenBlockTxs : op \in InputsOfTx(h)
        /\ \A h \in GenBlockTxs \cap DruidTxs, p \in node.tx_pool :
               InputsOfTx(h) \cap InputsOfTx(p) # {}
                   => p \notin GenBlockTxs \cup rafts[1].consensused.tx_pool
        /\ rafts[1].consensused.tx_druid_pool = <<>>

\* three groups were pending: the first was accepted and won over the
\* tx_pool transaction spending its outpoint, the second spent an absent
\* outpoint, the third spent what the first had consumed
C15_Witness ==
    /\ GenBlockDone
    /\ node.tx_druid_pool = <<{11, 12}, {13, 14}, {17}>>
    /\ 3 \in node.tx_pool
    /\ GenBlockTxs = {11, 12}

(***************************************************************************)
(* The partition list with more miners than places                         *)
(***************************************************************************)
PartitionMiners == {1, 2, 3}

NodePartitionEntryHandled(peer, x) ==
    NodeHandled(x, [Last("SendPartitionEntry", x.reason) EXCEPT
        !.full = Len(node.partition_list.pows) >= PartitionFullSize,
        !.peer = peer,
        !.changed = \/ x.n.partition_list # node.partition_list
                    \/ x.n.partition_key # node.partition_key])

NodeReceivePartitionEntryOfAny ==
    \E peer \in PartitionMiners, valid_pow \in BOOLEAN :
        NodePartitionEntryHandled(peer,
            handle_next_event_response(
                receive_partition_entry(node, rafts[1], peer, valid_pow)))

\* the mining flow of the node with three miners asking for a place
PartitionNext ==
    \/ NodeReceivePartitionRequest \/ NodeReceivePartitionEntryOfAny \/ NodeReceivePoW
    \/ NodeReceiveBlockStored \/ NodeReceivedCommit \/ NodePeerVote

SpecPartition == NodeInit /\ [][PartitionNext]_vars

\* C16: the partition list of a round never holds more than
\* PartitionFullSize entries, all of distinct peers, in the order they were
\* admitted; a SendPartitionEntry that finds the list full is answered
\* "Partition list is already full" and changes neither the list nor the key;
\* the partition key is set exactly when the list is full, and is the key of
\* the entries of the list in insertion order.
C16_PartitionOverflow ==
    /\ Len(node.partition_list.pows) <= PartitionFullSize
    /\ Cardinality(node.partition_list.addrs) = Len(node.partition_list.pows)
    /\ SeqToSet(node.partition_list.pows) = node.partition_list.addrs
    /\ IsSome(node.partition_key) <=> Len(node.partition_list.pows) = PartitionFullSize
    /\ IsSome(node.partition_key)
           => node.partition_key = Some(get_partition_entry_key(node.partition_list.pows))
    /\ (node.last.event = "SendPartitionEntry" /\ node.last.full) =>
           /\ node.last.reason = "Partition list is already full"
           /\ ~node.last.changed

\* a third miner sent its entry after two others were admitted in a round
\* with a block to mine
C16_Witness ==
    /\ node.last.event = "SendPartitionEntry"
    /\ node.last.full
    /\ node.last.peer = 3
    /\ node.partition_list.pows = <<2, 1>>
    /\ node.partition_key = Some(<<2, 1>>)
    /\ IsSome(rafts[1].consensused.current_block)
    /\ ~applied[1].panicked

(***************************************************************************)
(* Storage Raft group: StorageConsensused and the StorageRaft operations   *)
(* of storage_raft.rs, three storage nodes over one committed log          *)
(***************************************************************************)
StoragePeers == {1, 2, 3}
MaxStorageLog == 7
MaxStorageBatch == 1
MaxStorageRound == 1
\* the blocks a compute node may send in a round
BlockVariants == {"A", "B"}

\* the digest of the serialized common part: the variants of one round are
\* ordered "A" before "B" in round 0 and "B" before "A" in round 1
StorageCommonHash(common) ==
    IF common.block = "A" THEN (5 + 7 * common.block_idx) % 13
    ELSE (8 + 2 * common.block_idx) % 13

StorageKey(proposer_id, proposal_id) ==
    [proposer_id |-> proposer_id, proposal_id |-> proposal_id]

Storage_PartBlock(block) == [type |-> "PartBlock", block |-> block, idx |-> 0]
Storage_CompleteBlock(idx) ==
    [type |-> "CompleteBlock",
     block |-> [common |-> [block_idx |-> 0, block |-> "A", block_txs |-> {}],
                per_node |-> [nonce |-> <<>>, mining_tx |-> 0]],
     idx |-> idx]

StorageRaft_new(peers_len) ==
    [consensused |->
        [sufficient_majority |-> (peers_len \div 2) + 1,
         current_block_idx |-> 0,
         current_block_complete_timeout_peer_ids |-> {},
         current_block_completed_parts |-> <<>>],
     propose_block_timeout_at |-> TRUE,
     proposed_last_id |-> 0,
     local_blocks |-> <<>>]

Storage_is_current_block(c, block_idx) == block_idx = c.current_block_idx

\* the largest number of per-node extras of a group, 0 without groups
Storage_completed_blocks_len(c) ==
    LET lens == {Cardinality(DOMAIN c.current_block_completed_parts[h].per_node) :
                    h \in DOMAIN c.current_block_completed_parts}
    IN  IF lens = {} THEN 0 ELSE CHOOSE l \in lens : \A k \in lens : k <= l

\* ready as soon as the timeout votes reach the majority
Storage_has_block_ready_to_store_votes_only(c) ==
    Cardinality(c.current_block_complete_timeout_peer_ids) >= c.sufficient_majority

Storage_has_block_ready_to_store(c) ==
    IF Cardinality(c.current_block_complete_timeout_peer_ids) < c.sufficient_majority
    THEN FALSE
    ELSE Storage_completed_blocks_len(c) >= c.sufficient_majority

Storage_append_received_block_timeout(c, key) ==
    [c EXCEPT !.current_block_complete_timeout_peer_ids = @ \cup {key.proposer_id}]

\* m with k mapped to v, inserted or replaced
MapInsert(m, k, v) == [x \in DOMAIN m \cup {k} |-> IF x = k THEN v ELSE m[x]]

Storage_append_received_block(c, key, block) ==
    LET block_hash == StorageCommonHash(block.common)
        parts == c.current_block_completed_parts
        entry == IF block_hash \in DOMAIN parts THEN parts[block_hash]
                 ELSE [common |-> block.common, per_node |-> <<>>]
    IN  [c EXCEPT !.current_block_completed_parts =
            MapInsert(parts, block_hash,
                      [entry EXCEPT !.per_node =
                          MapInsert(@, key.proposer_id, block.per_node)])]

\* the keys of m in ascending order
RECURSIVE AscendingKeys(_)
AscendingKeys(keys) ==
    IF keys = {} THEN <<>>
    ELSE LET k == CHOOSE x \in keys : \A y \in keys : x <= y
         IN  <<k>> \o AscendingKeys(keys \ {k})

\* Iterator::max_by_key over the groups in key order: a later group replaces
\* the best so far when it holds at least as many per-node extras
RECURSIVE Storage_max_by_key(_, _, _)
Storage_max_by_key(parts, order, best) ==
    IF order = <<>> THEN best
    ELSE Storage_max_by_key(parts, Tail(order),
            IF Cardinality(DOMAIN parts[Head(order)].per_node)
                  >= Cardinality(DOMAIN parts[best].per_node)
            THEN Head(order) ELSE best)

\* the first group in key order, whatever it holds
Storage_generate_complete_block_first(c) ==
    LET parts == c.current_block_completed_parts
        order == AscendingKeys(DOMAIN parts)
    IN  [c |-> [c EXCEPT !.current_block_idx = @ + 1,
                         !.current_block_complete_timeout_peer_ids = {},
                         !.current_block_completed_parts = <<>>],
         hash |-> Head(order),
         complete_block |-> parts[Head(order)]]

\* the timeout votes survive the generation
Storage_generate_complete_block_keep_votes(c) ==
    LET parts == c.current_block_completed_parts
        order == AscendingKeys(DOMAIN parts)
        h == Storage_max_by_key(parts, Tail(order), Head(order))
    IN  [c |-> [c EXCEPT !.current_block_idx = @ + 1,
                         !.current_block_completed_parts = <<>>],
         hash |-> h,
         complete_block |-> parts[h]]

Storage_generate_complete_block(c) ==
    LET parts == c.current_block_completed_parts
        order == AscendingKeys(DOMAIN parts)
        h == Storage_max_by_key(parts, Tail(order), Head(order))
    IN  [c |-> [c EXCEPT !.current_block_idx = @ + 1,
                         !.current_block_complete_timeout_peer_ids = {},
                         !.current_block_completed_parts = <<>>],
         hash |-> h,
         complete_block |-> parts[h]]

\* an entry counted whatever its block index
Storage_commit_one_any_idx(c, e) ==
    IF e.item.type = "PartBlock"
    THEN Storage_append_received_block(c, e.key, e.item.block)
    ELSE Storage_append_received_block_timeout(c, e.key)

\* one committed entry processed by received_commit, unless the block is
\* already ready to store
Storage_commit_one(c, e) ==
    IF e.item.type = "PartBlock"
    THEN IF Storage_is_current_block(c, e.item.block.common.block_idx)
         THEN Storage_append_received_block(c, e.key, e.item.block) ELSE c
    ELSE IF Storage_is_current_block(c, e.item.idx)
         THEN Storage_append_received_block_timeout(c, e.key) ELSE c

\* every entry is processed, whether a block is ready to store or not
RECURSIVE Storage_received_commit_no_defer(_, _)
Storage_received_commit_no_defer(c, raft_data) ==
    IF raft_data = <<>> THEN [c |-> c, overflow |-> 0]
    ELSE Storage_received_commit_no_defer(Storage_commit_one(c, Head(raft_data)),
                                          Tail(raft_data))

\* received_commit over raft_data: the consensused state after it and the
\* number of entries left as overflow
RECURSIVE Storage_received_commit(_, _)
Storage_received_commit(c, raft_data) ==
    IF raft_data = <<>> THEN [c |-> c, overflow |-> 0]
    ELSE IF Storage_has_block_ready_to_store(c)
         THEN [c |-> c, overflow |-> Len(raft_data)]
         ELSE Storage_received_commit(Storage_commit_one(c, Head(raft_data)), Tail(raft_data))

\* node holds, when the last step was a generate_complete_block, the node,
\* the votes and the groups it found, and the group it returned; the number
\* of generations (rounds); and the history of the round:
\*   voted: the proposers of the CompleteBlock entries of the current index
\*          processed since the last generation
\*   extras: per group hash, the proposers of the PartBlock entries of the
\*           current index processed since the last generation
\*   own_votes: the timeout votes the node proposed since the last generation
\* and, when the last step was a received_commit:
\*   stale: it processed an entry of another index
\*   alone: it processed no entry of the current index
\*   same: it left what its current entries alone leave
\*   kept: it left the votes and the parts as they were
StorageIdle ==
    [who |-> 0, timeouts |-> {}, parts |-> <<>>, hash |-> 0,
     complete_block |-> [common |-> [block_idx |-> 0, block |-> "A", block_txs |-> {}],
                         per_node |-> <<>>],
     rounds |-> 0,
     voted |-> {}, extras |-> <<>>, own_votes |-> 0, stale |-> FALSE, alone |-> FALSE,
     same |-> TRUE, kept |-> TRUE]

StorageInit ==
    /\ rafts = [i \in {1} |-> StorageRaft_new(Cardinality(StoragePeers))]
    /\ raft_log = <<>>
    /\ applied = [i \in {1} |-> [count |-> 0, panicked |-> FALSE]]
    /\ snap_src = [i \in {1} |-> 0]
    /\ node = StorageIdle
    /\ utxo = TrackedUtxoSet_default
    /\ utxo_ops = 0
    /\ uni = UniIdle
    /\ uni_res = UniResIdle
    /\ uni_ver = UniVerIdle

StorageFrame == UNCHANGED <<snap_src, utxo_vars, uni_vars>>

\* the last step was not a received_commit
StorageOtherStep ==
    node' = [StorageIdle EXCEPT
                !.rounds = node.rounds, !.voted = node.voted, !.extras = node.extras,
                !.own_votes = node.own_votes]

\* raft_log holds the committed entries storage node 1 has still to take;
\* the entries taken, committed and still to be proposed by storage node 1
StoragePending == applied[1].count + Len(raft_log) + Len(rafts[1].local_blocks)

\* a compute node's mined block reaches storage node 1
StorageAppendToOurBlocks(block) ==
    /\ StoragePending < MaxStorageLog
    /\ Len(rafts[1].local_blocks) < MaxStorageBatch
    /\ rafts' = [rafts EXCEPT ![1].local_blocks =
                    Append(@, [common |-> [block_idx |-> rafts[1].consensused.current_block_idx,
                                           block |-> block, block_txs |-> {}],
                               per_node |-> [nonce |-> <<>>, mining_tx |-> 0]])]
    /\ UNCHANGED <<raft_log, applied>>
    /\ StorageOtherStep
    /\ StorageFrame

\* the entries propose_item commits for the blocks, in order
StorageProposed(i, last_id, blocks) ==
    [k \in DOMAIN blocks |->
        [key |-> StorageKey(i, last_id + k), item |-> Storage_PartBlock(blocks[k])]]

StorageProposeReceivedPartBlock ==
    /\ rafts[1].local_blocks # <<>>
    /\ Len(raft_log) + Len(rafts[1].local_blocks) <= MaxStorageBatch
    /\ raft_log' = raft_log
                     \o StorageProposed(1, rafts[1].proposed_last_id, rafts[1].local_blocks)
    /\ rafts' = [rafts EXCEPT ![1].local_blocks = <<>>,
                              ![1].proposed_last_id = @ + Len(rafts[1].local_blocks)]
    /\ UNCHANGED applied
    /\ StorageOtherStep
    /\ StorageFrame

\* the timeout stays armed after the vote
Storage_propose_block_at_timeout_keep_armed(r) ==
    [r |-> [r EXCEPT !.proposed_last_id = @ + 1],
     entry |-> [key |-> StorageKey(1, r.proposed_last_id + 1),
                item |-> Storage_CompleteBlock(r.consensused.current_block_idx)]]

\* propose_block_at_timeout: the node after it and the entry it proposed
Storage_propose_block_at_timeout(r) ==
    [r |-> [r EXCEPT !.propose_block_timeout_at = FALSE, !.proposed_last_id = @ + 1],
     entry |-> [key |-> StorageKey(1, r.proposed_last_id + 1),
                item |-> Storage_CompleteBlock(r.consensused.current_block_idx)]]

\* timeout_propose_block returned Some: the timeout is armed and has expired
StorageProposeBlockAtTimeout ==
    /\ rafts[1].propose_block_timeout_at
    /\ StoragePending < MaxStorageLog
    /\ Len(raft_log) < MaxStorageBatch
    /\ raft_log' = Append(raft_log, Storage_propose_block_at_timeout(rafts[1]).entry)
    /\ rafts' = [rafts EXCEPT ![1] = Storage_propose_block_at_timeout(rafts[1]).r]
    /\ UNCHANGED applied
    /\ node' = [StorageIdle EXCEPT
                !.rounds = node.rounds, !.voted = node.voted, !.extras = node.extras,
                !.own_votes = node.own_votes + 1]
    /\ StorageFrame

\* the rounds a peer may be in: that of storage node 1 or the one before
StoragePeerRounds ==
    {idx \in 0..MaxStorageRound :
        /\ idx + 1 >= rafts[1].consensused.current_block_idx
        /\ idx <= rafts[1].consensused.current_block_idx}

\* the proposal of another storage node is committed: a part block of its
\* round, or its timeout vote
StoragePeerProposed(p, item) ==
    /\ StoragePending < MaxStorageLog
    /\ Len(raft_log) < MaxStorageBatch
    /\ raft_log' = Append(raft_log, [key |-> StorageKey(p, 1), item |-> item])
    /\ UNCHANGED <<rafts, applied>>
    /\ StorageOtherStep
    /\ StorageFrame

StoragePeerPartBlock ==
    \E p \in StoragePeers \ {1}, block \in BlockVariants, idx \in StoragePeerRounds :
        StoragePeerProposed(p, Storage_PartBlock(
            [common |-> [block_idx |-> idx, block |-> block, block_txs |-> {}],
             per_node |-> [nonce |-> <<>>, mining_tx |-> 0]]))

StoragePeerCompleteBlock ==
    \E p \in StoragePeers \ {1}, idx \in StoragePeerRounds :
        StoragePeerProposed(p, Storage_CompleteBlock(idx))

\* the block index a committed entry is about
StorageEntryIdx(e) ==
    IF e.item.type = "PartBlock" THEN e.item.block.common.block_idx ELSE e.item.idx

\* the entries of the batch that are about the index idx
StorageEntriesOf(batch, idx) ==
    SelectSeq(batch, LAMBDA e : StorageEntryIdx(e) = idx)

\* the proposers of the entries of the batch that vote the timeout of idx
StorageVoters(batch, idx) ==
    {batch[k].key.proposer_id : k \in {j \in DOMAIN batch :
        batch[j].item.type = "CompleteBlock" /\ StorageEntryIdx(batch[j]) = idx}}

\* the proposers of the entries of the batch that bring the group h of idx
StoragePartners(batch, idx, h) ==
    {batch[k].key.proposer_id : k \in {j \in DOMAIN batch :
        /\ batch[j].item.type = "PartBlock"
        /\ StorageEntryIdx(batch[j]) = idx
        /\ StorageCommonHash(batch[j].item.block.common) = h}}

StorageGroupsOf(batch, idx) ==
    {h \in 0..12 : StoragePartners(batch, idx, h) # {}}

\* the history of the round after the entries the node processed
StorageProcessed(c, processed, after) ==
    [StorageIdle EXCEPT
        !.rounds = node.rounds,
        !.own_votes = node.own_votes,
        !.voted = node.voted \cup StorageVoters(processed, c.current_block_idx),
        !.extras = [h \in DOMAIN node.extras
                            \cup StorageGroupsOf(processed, c.current_block_idx) |->
                      (IF h \in DOMAIN node.extras THEN node.extras[h] ELSE {})
                          \cup StoragePartners(processed, c.current_block_idx, h)],
        !.stale = Len(StorageEntriesOf(processed, c.current_block_idx)) < Len(processed),
        !.alone = StorageEntriesOf(processed, c.current_block_idx) = <<>>,
        !.same = after = Storage_received_commit(
                             c, StorageEntriesOf(processed, c.current_block_idx)).c,
        !.kept = /\ after.current_block_complete_timeout_peer_ids
                       = c.current_block_complete_timeout_peer_ids
                 /\ after.current_block_completed_parts = c.current_block_completed_parts]

\* storage node 1 takes the next n committed entries; the overflow stays to
\* be taken
StorageReceivedCommit(n) ==
    /\ n <= Len(raft_log)
    /\ LET o == Storage_received_commit(rafts[1].consensused, SubSeq(raft_log, 1, n))
       IN  /\ rafts' = [rafts EXCEPT ![1].consensused = o.c]
           /\ applied' = [applied EXCEPT ![1].count = @ + n - o.overflow]
           /\ raft_log' = SubSeq(raft_log, n - o.overflow + 1, Len(raft_log))
           /\ node' = IF n = o.overflow THEN node
                      ELSE StorageProcessed(rafts[1].consensused,
                                            SubSeq(raft_log, 1, n - o.overflow), o.c)
    /\ StorageFrame

\* received_commit returned Some: storage node 1 generates the complete block
StorageGenerateCompleteBlock ==
    /\ Storage_has_block_ready_to_store(rafts[1].consensused)
    /\ LET o == Storage_generate_complete_block(rafts[1].consensused)
       IN  /\ rafts' = [rafts EXCEPT ![1].consensused = o.c,
                                     ![1].propose_block_timeout_at = TRUE]
           /\ node' = [StorageIdle EXCEPT
                       !.who = 1,
                       !.timeouts = rafts[1].consensused.current_block_complete_timeout_peer_ids,
                       !.parts = rafts[1].consensused.current_block_completed_parts,
                       !.hash = o.hash,
                       !.complete_block = o.complete_block,
                       !.rounds = node.rounds + 1]
    /\ UNCHANGED <<raft_log, applied>>
    /\ StorageFrame

StorageNext ==
    \/ \E block \in BlockVariants : StorageAppendToOurBlocks(block)
    \/ StorageProposeReceivedPartBlock
    \/ StorageProposeBlockAtTimeout
    \/ StoragePeerPartBlock
    \/ StoragePeerCompleteBlock
    \/ \E n \in 1..MaxStorageBatch : StorageReceivedCommit(n)
    \/ StorageGenerateCompleteBlock

SpecStorage == StorageInit /\ [][StorageNext]_vars

\* the number of per-node extras of the group h the last generation found
StorageExtras(h) == Cardinality(DOMAIN node.parts[h].per_node)

\* C17: when a storage round completes, generate_complete_block returns the
\* PartBlock group holding the most per-node extras, the one with the highest
\* group hash among equals; when exactly two of three storage nodes proposed
\* the same common block, the third another one and all three voted the
\* timeout, the block returned is the one the two proposed.
C17_StorageQuorum ==
    node.who # 0 =>
        /\ node.hash \in DOMAIN node.parts
        /\ node.complete_block = node.parts[node.hash]
        /\ StorageCommonHash(node.complete_block.common) = node.hash
        /\ \A h \in DOMAIN node.parts :
              \/ StorageExtras(h) < StorageExtras(node.hash)
              \/ StorageExtras(h) = StorageExtras(node.hash) /\ h <= node.hash
        /\ \A h \in DOMAIN node.parts :
              (/\ node.timeouts = StoragePeers
               /\ Cardinality(DOMAIN node.parts) = 2
               /\ StorageExtras(h) = 2
               /\ \A g \in DOMAIN node.parts \ {h} : StorageExtras(g) = 1)
                 => node.complete_block.common = node.parts[h].common

\* two nodes proposed "A", the third "B" whose group hash is the higher in
\* round 0, all three voted the timeout, and "A" was returned
C17_Witness ==
    /\ node.who # 0
    /\ node.timeouts = StoragePeers
    /\ node.complete_block.common.block_idx = 0
    /\ DOMAIN node.parts = {5, 8}
    /\ Cardinality(DOMAIN node.parts[5].per_node) = 2
    /\ Cardinality(DOMAIN node.parts[8].per_node) = 1
    /\ node.complete_block.common.block = "A"
    /\ node.hash = 5

(***************************************************************************)
(* In-flight transactions: a compute node that is its whole Raft group     *)
(* proposes its local transactions at the timeout and processes its commits*)
(***************************************************************************)
MaxFlightCommits == 4
\* the transactions the node receives from its users
FlightTxs == {3, 4, 5, 9, 10}

\* node holds what the last propose_local_transactions_at_timeout found and
\* what it moved
FlightIdle ==
    [event |-> "none", local |-> {}, in_flight |-> 0, tx_pool |-> 0, taken |-> {}, commits |-> <<>>]

\* new_test_node with the limits in_flight_transactions_no_raft sets
FlightNode ==
    [ComputeRaft_new(1, 1, SeedUtxo, 0) EXCEPT
        !.proposed_and_consensused_tx_pool_len_max = 3,
        !.proposed_tx_pool_len_max = 2]

FlightInit ==
    /\ rafts = [i \in {1} |-> FlightNode]
    /\ raft_log = <<>>
    /\ applied = [i \in {1} |-> [count |-> 0, panicked |-> FALSE]]
    /\ snap_src = [i \in {1} |-> 0]
    /\ node = FlightIdle
    /\ utxo = TrackedUtxoSet_default
    /\ utxo_ops = 0
    /\ uni = UniIdle
    /\ uni_res = UniResIdle
    /\ uni_ver = UniVerIdle

\* raft_log holds the commits the node has still to take: a local call whose
\* proposals are committed
FlightLocal(o, last) ==
    /\ ~applied[1].panicked
    /\ ~o.panic
    /\ applied[1].count + Len(raft_log) + Len(o.commits) <= MaxFlightCommits
    /\ rafts' = [rafts EXCEPT ![1] = o.r]
    /\ raft_log' = raft_log \o o.commits
    /\ node' = last
    /\ UNCHANGED <<applied, snap_src, utxo_vars, uni_vars>>

FlightProposeInitialItem ==
    /\ IsSome(rafts[1].local_initial_proposal)
    /\ FlightLocal(propose_initial_item(rafts[1]), FlightIdle)

FlightAppendToTxPool ==
    \E h \in FlightTxs :
        /\ h \notin rafts[1].local_tx_pool
        /\ FlightLocal(Outcome(append_to_tx_pool(rafts[1], {h}), TRUE, <<>>, FALSE), FlightIdle)

\* the number of transactions of the Transactions items in flight
RECURSIVE FlightLen(_)
FlightLen(in_flight) ==
    IF in_flight = {} THEN 0
    ELSE LET e == CHOOSE x \in in_flight : TRUE
         IN  (IF e.item.type = "Transactions" THEN Cardinality(e.item.txs) ELSE 0)
                + FlightLen(in_flight \ {e})

InFlight(r) == FlightLen(r.proposed_in_flight.in_flight)

FlightTimedOut(o) ==
    FlightLocal(o, [event |-> "timeout",
                    local |-> rafts[1].local_tx_pool,
                    in_flight |-> InFlight(rafts[1]),
                    tx_pool |-> Cardinality(rafts[1].consensused.tx_pool),
                    taken |-> rafts[1].local_tx_pool \ o.r.local_tx_pool,
                    commits |-> o.commits])

FlightProposeLocalTransactionsAtTimeout ==
    FlightTimedOut(propose_local_transactions_at_timeout(rafts[1]))

\* storage answers for the block being mined
FlightProposeBlock ==
    /\ IsSome(rafts[1].consensused.current_block)
    /\ FlightLocal(propose_block_with_last_info(rafts[1],
            [block_hash |-> "h",
             block_num |-> Unwrap(rafts[1].consensused.tx_current_block_num),
             mining_transactions |-> {7}, shutdown |-> FALSE]), FlightIdle)

FlightCommitted(o) ==
    /\ rafts' = [rafts EXCEPT ![1] = o.r]
    /\ raft_log' = Tail(raft_log) \o o.commits
    /\ applied' = [applied EXCEPT ![1] = [count |-> @.count + 1, panicked |-> o.panic]]
    /\ node' = FlightIdle
    /\ UNCHANGED <<snap_src, utxo_vars, uni_vars>>

FlightReceivedCommit ==
    /\ ~applied[1].panicked
    /\ raft_log # <<>>
    /\ FlightCommitted(CommitStep(rafts[1], Head(raft_log), applied[1].count + 1))

FlightNext ==
    \/ FlightProposeInitialItem \/ FlightAppendToTxPool
    \/ FlightProposeLocalTransactionsAtTimeout \/ FlightProposeBlock
    \/ FlightReceivedCommit

SpecFlight == FlightInit /\ [][FlightNext]_vars

\* what may still be added when x transactions are in flight or consensused
FlightRoom(r, x) ==
    IF x >= r.proposed_and_consensused_tx_pool_len_max THEN 0
    ELSE r.proposed_and_consensused_tx_pool_len_max - x

\* C18: each propose_local_transactions_at_timeout moves at most
\* min(proposed_tx_pool_len_max, proposed_and_consensused_tx_pool_len_max -
\* (in-flight + consensused tx_pool size)) transactions from the local pool
\* into flight; on a single-node group in-flight + consensused tx_pool size
\* never exceeds proposed_and_consensused_tx_pool_len_max, the transactions
\* not moved stay in the local pool, and once the limit is reached a timeout
\* proposes nothing.
C18_InFlightBound ==
    /\ InFlight(rafts[1]) + Cardinality(rafts[1].consensused.tx_pool)
          <= rafts[1].proposed_and_consensused_tx_pool_len_max
    /\ rafts[1].proposed_tx_pool_len = InFlight(rafts[1])
    /\ node.event = "timeout" =>
          /\ Cardinality(node.taken) <= rafts[1].proposed_tx_pool_len_max
          /\ Cardinality(node.taken) <= FlightRoom(rafts[1], node.in_flight + node.tx_pool)
          /\ node.taken \subseteq node.local
          /\ rafts[1].local_tx_pool = node.local \ node.taken
          /\ InFlight(rafts[1]) = node.in_flight + Cardinality(node.taken)
          /\ node.taken # {} =>
                /\ Len(node.commits) = 1
                /\ node.commits[1].item = ItemTransactions(node.taken)
          /\ node.in_flight + node.tx_pool >= rafts[1].proposed_and_consensused_tx_pool_len_max
                => node.taken = {} /\ node.commits = <<>>

\* the second timeout of in_flight_transactions_no_raft: two transactions are
\* consensused, three are local, and one of them is moved into flight
C18_Witness ==
    /\ node.event = "timeout"
    /\ node.tx_pool = 2
    /\ node.in_flight = 0
    /\ Cardinality(node.local) = 3
    /\ Cardinality(node.taken) = 1
    /\ Cardinality(rafts[1].local_tx_pool) = 2
    /\ rafts[1].proposed_tx_pool_len = 1

(***************************************************************************)
(* Votes: one compute node of a Raft group of three processes the          *)
(* committed FirstBlock and Block proposals of the three peers             *)
(***************************************************************************)
MaxVoteCommits == 7
VotePeers == {1, 2, 3}
\* the initial UTXO sets the peers may propose
VoteUtxoSets == {SeedUtxo, {1}}
\* the block hashes storage may have answered with
VoteBlockHashes == {"h", "g"}
\* the mining transactions of the block stored under the hash
VoteMiningTransactions(h) == IF h = "h" THEN {7} ELSE {7, 8}

\* node holds the votes committed for the block in progress and their number,
\* and for the last commit what it returned, the votes it found and their
\* number, the consensused state it found and the one received_commit left,
\* and whether the item was a vote for another block than the one in progress
VoteIdle ==
    [ballots |-> {}, cast |-> 0, ret |-> "None", found |-> {}, found_cast |-> 0,
     stale |-> FALSE,
     before |-> ComputeConsensused_default, after |-> ComputeConsensused_default]

\* ComputeConsensused::from_import
from_import(imp) ==
    [ComputeConsensused_default EXCEPT
        !.unanimous_majority = imp.unanimous_majority,
        !.sufficient_majority = imp.sufficient_majority,
        !.tx_current_block_num = imp.tx_current_block_num,
        !.current_block = imp.current_block,
        !.utxo_set = TrackedUtxoSet_new(imp.utxo_set),
        !.last_committed_raft_idx_and_term = imp.last_committed_raft_idx_and_term,
        !.current_circulation = imp.current_circulation,
        !.special_handling = imp.special_handling]

\* the state exported while block 1 was being mined in a group of three,
\* before or after the coordinated shutdown at that block
VoteImports ==
    {[unanimous_majority |-> 3, sufficient_majority |-> 2,
      tx_current_block_num |-> Some(1),
      current_block |-> Some([BlockNew EXCEPT !.header.b_num = 1,
                                              !.header.previous_hash = Some("h")]),
      utxo_set |-> extend_tracked_utxo_set(TrackedUtxoSet_default, SeedUtxo \cup {7}).base,
      last_committed_raft_idx_and_term |-> <<0, 0>>,
      current_circulation |-> 2,
      special_handling |-> sh] : sh \in {NoneOpt, Some("Shutdown")}}

\* the node as constructed, or with an imported consensused state
VoteNodes ==
    {ComputeRaft_new(1, Cardinality(VotePeers), SeedUtxo, 0)}
       \cup {[ComputeRaft_new(1, Cardinality(VotePeers), SeedUtxo, 0)
                 EXCEPT !.consensused = from_import(imp)] : imp \in VoteImports}

VoteInit ==
    /\ \E r \in VoteNodes : rafts = [i \in {1} |-> r]
    /\ raft_log = <<>>
    /\ applied = [i \in {1} |-> [count |-> 0, panicked |-> FALSE]]
    /\ snap_src = [i \in {1} |-> 0]
    /\ node = VoteIdle
    /\ utxo = TrackedUtxoSet_default
    /\ utxo_ops = 0
    /\ uni = UniIdle
    /\ uni_res = UniResIdle
    /\ uni_ver = UniVerIdle

\* the vote of the committed item, if it is one for the block in progress
VoteOf(c, p, item) ==
    IF item.type = "FirstBlock" /\ ~IsSome(c.tx_current_block_num)
    THEN {[proposer |-> p, block |-> AccFirstBlock(item.txs)]}
    ELSE IF /\ item.type = "Block"
            /\ c.tx_current_block_num = Some(item.info.block_num)
    THEN {[proposer |-> p, block |-> AccBlock(item.info)]}
    ELSE {}

VoteApplied(ret) == ret \in {"FirstBlock", "Block"}

\* the node has processed the commit of item proposed by p with outcome o
VoteCommitted(p, item, o) ==
    /\ rafts' = [rafts EXCEPT ![1] = o.r]
    /\ applied' = [applied EXCEPT ![1] = [count |-> @.count + 1, panicked |-> o.panic]]
    /\ node' = [ballots |-> IF VoteApplied(o.ret) THEN {}
                            ELSE node.ballots \cup VoteOf(rafts[1].consensused, p, item),
                cast |-> IF VoteApplied(o.ret) THEN 0
                         ELSE node.cast + Cardinality(VoteOf(rafts[1].consensused, p, item)),
                ret |-> o.ret,
                found |-> node.ballots \cup VoteOf(rafts[1].consensused, p, item),
                found_cast |-> node.cast + Cardinality(VoteOf(rafts[1].consensused, p, item)),
                stale |-> VoteOf(rafts[1].consensused, p, item) = {},
                before |-> rafts[1].consensused,
                after |-> received_commit(rafts[1],
                              CommitProposed([proposer_id |-> p,
                                              proposal_id |-> applied[1].count + 1,
                                              key_run |-> 0], item),
                              applied[1].count + 1).r.consensused]
    /\ UNCHANGED <<raft_log, snap_src, utxo_vars, uni_vars>>

VoteReceivedCommit(p, item) ==
    /\ ~applied[1].panicked
    /\ applied[1].count < MaxVoteCommits
    /\ VoteCommitted(p, item,
          CommitStep(rafts[1],
                     CommitProposed([proposer_id |-> p, proposal_id |-> applied[1].count + 1,
                                     key_run |-> 0], item),
                     applied[1].count + 1))

VoteCommitFirstBlock ==
    \E p \in VotePeers, txs \in VoteUtxoSets : VoteReceivedCommit(p, ItemFirstBlock(txs))

\* a Block proposal for the block in progress or the one before
VoteCommitBlock ==
    \E p \in VotePeers, h \in VoteBlockHashes, b \in 0..1, sh \in BOOLEAN :
        /\ IsSome(rafts[1].consensused.tx_current_block_num)
        /\ b <= Unwrap(rafts[1].consensused.tx_current_block_num)
        /\ VoteReceivedCommit(p, ItemBlock(
              [block_hash |-> h,
               block_num |-> Unwrap(rafts[1].consensused.tx_current_block_num) - b,
               mining_transactions |-> VoteMiningTransactions(h), shutdown |-> sh]))

VoteNext == VoteCommitFirstBlock \/ VoteCommitBlock

SpecVotes == VoteInit /\ [][VoteNext]_vars

\* the peers whose votes for the candidate block the last commit found
VotersOf(block) == {b.proposer : b \in {x \in node.found : x.block = block}}

VoteCandidates == {b.block : b \in node.found}

\* the candidate the last commit applied, read from the state it left
VoteInstalled(block) ==
    IF block.kind = "FirstBlock"
    THEN /\ node.ret = "FirstBlock"
         /\ rafts[1].consensused.tx_current_block_num = Some(0)
         /\ rafts[1].consensused.current_block_tx = block.utxo_set
    ELSE /\ node.ret = "Block"
         /\ rafts[1].consensused.tx_current_block_num = Some(block.info.block_num + 1)
         /\ Unwrap(rafts[1].consensused.current_block).header.previous_hash
               = Some(block.info.block_hash)

\* C19: the genesis is installed only when every peer of the group has voted
\* for the identical initial UTXO set, and a Block(stored_info) is applied
\* only when at least floor(n/2)+1 distinct proposers have voted for the
\* identical stored info; a proposer counts once per candidate, and the
\* candidate applied is the one with the most votes.
C19_VoteThresholds ==
    /\ rafts[1].consensused.unanimous_majority = Cardinality(VotePeers)
    /\ rafts[1].consensused.sufficient_majority = (Cardinality(VotePeers) \div 2) + 1
    /\ (VoteApplied(node.ret) /\ ~applied[1].panicked) =>
          \E block \in VoteCandidates :
              /\ VoteInstalled(block)
              /\ block.kind = "FirstBlock" => VotersOf(block) = VotePeers
              /\ block.kind = "Block" =>
                    Cardinality(VotersOf(block)) >= (Cardinality(VotePeers) \div 2) + 1
              /\ \A other \in VoteCandidates \ {block} :
                    Cardinality(VotersOf(other)) < Cardinality(VotersOf(block))
    /\ (~VoteApplied(node.ret)) =>
          \A block \in VoteCandidates :
              Cardinality(VotersOf(block))
                 < (IF block.kind = "FirstBlock" THEN Cardinality(VotePeers)
                    ELSE (Cardinality(VotePeers) \div 2) + 1)

\* block 0 is applied on the votes of peers 1 and 3 for hash "g", after peer
\* 2 voted for "h" and one of the three votes was cast a second time
C19_Witness ==
    /\ node.ret = "Block"
    /\ ~applied[1].panicked
    /\ rafts[1].consensused.tx_current_block_num = Some(1)
    /\ Unwrap(rafts[1].consensused.current_block).header.previous_hash = Some("g")
    /\ {<<b.proposer, b.block.info.block_hash>> : b \in node.found}
          = {<<1, "g">>, <<2, "h">>, <<3, "g">>}
    /\ node.found_cast = 4


\* the last commit installed the genesis and generate_first_block built the
\* first mining block
GenFirstBlockDone == node.generated = "FirstBlock" /\ ~node.panic

\* the coinbase tokens of the transactions txs: the amounts of their outputs
RECURSIVE CoinbaseTokens(_)
CoinbaseTokens(txs) ==
    IF txs = {} THEN 0
    ELSE LET h == CHOOSE x \in txs : \A y \in txs : x >= y
         IN  CoinbaseTokens(txs \ {h})
                + (IF TxTable[h].coinbase THEN Len(TxTable[h].outs) * TxTable[h].amount ELSE 0)

\* the first block is the block being mined
GenFirstBlockPending ==
    rafts[1].consensused.tx_current_block_num = Some(0) /\ ~applied[1].panicked

\* C20: when the FirstBlock votes become ready, tx_current_block_num becomes
\* 0 and current_circulation the coinbase-token total of the agreed set;
\* generate_first_block yields a mining block whose transaction list is
\* exactly the agreed initial UTXO transactions, with no previous hash, and
\* the UTXO set then holds exactly their outputs; the transactions committed
\* to tx_pool stay in tx_pool and are not part of the first block.
C20_GenesisInstall ==
    /\ GenFirstBlockPending =>
        /\ IsSome(rafts[1].consensused.current_block)
        /\ Unwrap(rafts[1].consensused.current_block).transactions
              = SortedHashes(rafts[1].consensused.current_block_tx)
        /\ Unwrap(rafts[1].consensused.current_block).header.previous_hash = NoneOpt
        /\ DOMAIN rafts[1].consensused.utxo_set.base
              = UNION {OutPointsOfTx(h) : h \in rafts[1].consensused.current_block_tx}
        /\ rafts[1].consensused.current_block_tx \cap rafts[1].consensused.tx_pool = {}
        /\ node.generated = "None" => node.tx_pool \subseteq rafts[1].consensused.tx_pool
    /\ GenFirstBlockDone =>
        /\ rafts[1].consensused.tx_current_block_num = Some(0)
        /\ rafts[1].consensused.current_circulation = CoinbaseTokens(node.initial_utxo_txs)
        /\ IsSome(rafts[1].consensused.current_block)
        /\ Unwrap(rafts[1].consensused.current_block).transactions
              = SortedHashes(node.initial_utxo_txs)
        /\ rafts[1].consensused.current_block_tx = node.initial_utxo_txs
        /\ Unwrap(rafts[1].consensused.current_block).header.previous_hash = NoneOpt
        /\ Unwrap(rafts[1].consensused.current_block).header.b_num = 0
        /\ rafts[1].consensused.tx_current_block_previous_hash = NoneOpt
        /\ DOMAIN rafts[1].consensused.utxo_set.base
              = UNION {OutPointsOfTx(h) : h \in node.initial_utxo_txs}
        /\ rafts[1].consensused.tx_pool = node.tx_pool
        /\ rafts[1].consensused.tx_druid_pool = node.tx_druid_pool
        /\ GenBlockTxs \cap node.tx_pool = {}

\* the set {1, 2, 8} with the coinbase transaction 8 is installed while
\* transactions 3 and 5 wait in tx_pool
C20_Witness ==
    /\ GenFirstBlockDone
    /\ node.initial_utxo_txs = {1, 2, 8}
    /\ node.tx_pool = {3, 5}
    /\ rafts[1].consensused.current_circulation = 2
    /\ Unwrap(rafts[1].consensused.current_block).transactions = <<1, 2, 8>>
    /\ rafts[1].consensused.tx_pool = {3, 5}


(***************************************************************************)
(* The application of a ready Block(stored_info), on the node of SpecVotes *)
(***************************************************************************)
\* the stored infos the votes of the last commit brought to sufficient_majority
VoteReadyInfos ==
    {b.info : b \in {x \in VoteCandidates :
        x.kind = "Block" /\ Cardinality(VotersOf(x)) >= (Cardinality(VotePeers) \div 2) + 1}}

\* the last commit applied the stored info, which is not a shutdown boundary
VoteBlockApplied(info) ==
    /\ node.ret = "Block"
    /\ info \in VoteReadyInfos
    /\ ~(node.before.special_handling = NoneOpt /\ info.shutdown)

\* C21: applying a ready Block(stored_info) that is not a shutdown boundary
\* sets tx_current_block_num to info.block_num + 1 and
\* tx_current_block_previous_hash to info.block_hash, adds every output of
\* info.mining_transactions to the UTXO set, increases current_circulation by
\* their coinbase-token total, sets last_mining_transaction_hashes to their
\* hashes, recomputes current_reward as calculate_reward(current_circulation)
\* divided by the size of the Raft group, clears special_handling, discards
\* the unmined current_block and empties the vote accumulator.
C21_BlockApplication ==
    \A info \in VoteReadyInfos :
        VoteBlockApplied(info) =>
            /\ node.after.tx_current_block_num = Some(info.block_num + 1)
            /\ node.after.tx_current_block_previous_hash = Some(info.block_hash)
            /\ DOMAIN node.after.utxo_set.base
                  = DOMAIN node.before.utxo_set.base
                       \cup UNION {OutPointsOfTx(h) : h \in info.mining_transactions}
            /\ \A op \in DOMAIN node.before.utxo_set.base :
                  node.after.utxo_set.base[op] = node.before.utxo_set.base[op]
            /\ node.after.current_circulation
                  = node.before.current_circulation + CoinbaseTokens(info.mining_transactions)
            /\ node.after.last_mining_transaction_hashes = SortedHashes(info.mining_transactions)
            /\ node.after.current_reward
                  = calculate_reward(node.after.current_circulation) \div Cardinality(VotePeers)
            /\ node.after.special_handling = NoneOpt
            /\ node.after.current_block = NoneOpt
            /\ node.after.current_block_tx = {}
            /\ node.after.current_block_stored_info = {}
            /\ node.after.tx_pool = node.before.tx_pool
            /\ node.after.tx_druid_pool = node.before.tx_druid_pool

\* the node restarted after the coordinated shutdown at block 1 applies the
\* stored info of block 1, which carries the shutdown mark, while its block
\* is unmined: the circulation goes from 2 to 6 and the reward from 1 to 0
C21_Witness ==
    /\ node.ret = "Block"
    /\ node.before.special_handling = Some("Shutdown")
    /\ IsSome(node.before.current_block)
    /\ \E info \in VoteReadyInfos :
          /\ VoteBlockApplied(info)
          /\ info.shutdown
          /\ info.mining_transactions = {7, 8}
    /\ node.before.current_circulation = 2
    /\ node.after.current_circulation = 6
    /\ node.after.tx_current_block_num = Some(2)
    /\ node.after.current_reward = 0


(***************************************************************************)
(* C22: the checks of a SendPoW                                            *)
(***************************************************************************)
PoWFailures ==
    {"Not block currently mined", "Coinbase transaction invalid", "Invalid PoW for block"}

\* C22: a SendPoW whose sender is outside the cohort, whose coinbase is not a
\* coinbase transaction paying exactly current_reward or whose nonce fails
\* the PoW validation is answered with a failure response and leaves the
\* mining block, the mined block and the partition list unchanged; only a
\* submission passing every check is accepted, and it takes the mining block
\* and records the mined block
C22_PoWRejected ==
    node.last.event = "SendPoW" =>
        /\ node.last.bad =>
              /\ node.last.reason \in PoWFailures
              /\ ~node.last.changed
              /\ ~applied[1].panicked
        /\ node.last.reason = "Received PoW successfully" =>
              /\ ~node.last.bad
              /\ ~IsSome(rafts[1].consensused.current_block)
              /\ IsSome(node.current_mined_block)


(***************************************************************************)
(* C23: the Closing exchange of a compute node over its runs               *)
(***************************************************************************)
\* who may send Closing: the storage node, the Raft peer, a miner and a
\* compute node of another group
ClosingSenders == {StorageAddr, 1, 12, 13}

\* what the event altered of the node and of its ComputeRaft
ClosingChanged(x) ==
    \/ [x.n EXCEPT !.last = node.last] # node
    \/ x.r # rafts[1]
    \/ x.commits # <<>>

NodeClosingHandled(peer, x) ==
    NodeHandled(x, [Last("Closing", x.reason) EXCEPT
        !.peer = peer, !.group = node.shutdown_group, !.changed = ClosingChanged(x)])

\* the main loop runs until the Shutdown response
ClosingRunning == node.last.reason # "Shutdown"

NodeReceiveClosing ==
    /\ ClosingRunning
    /\ \E peer \in ClosingSenders :
           NodeClosingHandled(peer,
               handle_next_event_response(receive_closing(node, rafts[1], peer)))

ClosingPartitionRequest == ClosingRunning /\ NodeReceivePartitionRequest

ClosingReceivedCommit == ClosingRunning /\ NodeReceivedCommit

ClosingNext ==
    \/ NodeReceiveClosing \/ ClosingPartitionRequest \/ ClosingReceivedCommit
    \/ NodeRestart

SpecClosing == NodeInit /\ [][ClosingNext]_vars

\* C23: Closing is answered 'Shutdown' exactly when its sender is the last
\* remaining member of the shutdown group (the Raft peers and the storage
\* node), 'Shutdown pending' when it is a member and others remain, and not
\* at all, changing nothing, when the sender is outside the group or was
\* removed from it before
C23_ClosingHandling ==
    node.last.event = "Closing" =>
        /\ node.last.group \subseteq raft_peer_addrs(NodePeersLen) \cup {StorageAddr}
        /\ node.last.reason = "Shutdown" <=> node.last.group = {node.last.peer}
        /\ node.last.reason = "Shutdown pending" <=>
               (node.last.peer \in node.last.group /\ node.last.group # {node.last.peer})
        /\ node.last.peer \in node.last.group =>
               node.shutdown_group = node.last.group \ {node.last.peer}
        /\ node.last.peer \notin node.last.group =>
               /\ node.last.reason = NoResponse
               /\ ~node.last.changed

\* in its second run, with miners in the request list, the node has received
\* Closing from the last member of the shutdown group
C23_Witness ==
    /\ node.last.event = "Closing"
    /\ node.last.reason = "Shutdown"
    /\ node.restarts = 1
    /\ node.request_list # {}


(***************************************************************************)
(* C24: the first full partition request of a run                          *)
(***************************************************************************)
\* the first blocks this node proposed in its current run
InitialItemsOfRun ==
    {k \in DOMAIN raft_log :
        /\ raft_log[k].key.proposer_id = 1
        /\ raft_log[k].key.key_run = rafts[1].proposed_in_flight.key_run
        /\ raft_log[k].item.type = "FirstBlock"}

OwnProposals(log) ==
    {k \in DOMAIN log : log[k].data = "Proposed" /\ log[k].key.proposer_id = 1}

\* the key_run of the run is the number of restarts before it (0 at the first
\* start, one more at each start) and is the value the store holds
KeyRunOfRun ==
    /\ rafts[1].proposed_in_flight.key_run = node.restarts
    /\ node.db.key_run = Some(rafts[1].proposed_in_flight.key_run)

\* what the node proposes in a step carries the key_run of the run, already
\* stored, and a context key no earlier proposal of the node has
ProposedUnderKeyRun ==
    \A k \in OwnProposals(raft_log') \ OwnProposals(raft_log) :
        /\ raft_log'[k].key.key_run = node.restarts
        /\ node.db.key_run = Some(raft_log'[k].key.key_run)
        /\ \A j \in OwnProposals(raft_log') \ {k} : raft_log'[j].key # raft_log'[k].key
        /\ \A j \in OwnProposals(raft_log) : raft_log[j].key.key_run <= node.restarts

\* C25: key_run is 0 at the first start and the stored value plus one at each
\* later start, it is in the store before the node proposes, so the key_run
\* values of a node increase strictly over its runs and two proposals of
\* different runs never have the same context key
C25_KeyRunIncreasing == [](KeyRunOfRun) /\ [][ProposedUnderKeyRun]_vars

\* the node has proposed in its first run and again after the restart
C25_Witness ==
    /\ node.restarts = 1
    /\ \E j, k \in OwnProposals(raft_log) :
           /\ raft_log[j].key.key_run = 0
           /\ raft_log[k].key.key_run = 1
           /\ raft_log[j].key.proposal_id = raft_log[k].key.proposal_id


(***************************************************************************)
(* C26: the transaction input of the UNiCORN seed                          *)
(***************************************************************************)
\* tx_inputs of the seed of the pipeline
SeedTxInputs == SeqToSet(rafts[1].consensused.first_block_pipeline.unicorn_seed[1])

\* C26: while a mining block is installed, the tx_inputs of the UNiCORN seed
\* are the hashes of the transactions of that block, whatever tx_pool holds
C26_SeedOverBlock ==
    IsSome(rafts[1].consensused.current_block) =>
        SeedTxInputs = SeqToSet(Unwrap(rafts[1].consensused.current_block).transactions)


(***************************************************************************)
(* C27: entries of another round                                           *)
(***************************************************************************)
\* C27: a committed PartBlock or CompleteBlock whose block index is not
\* current_block_idx changes neither the timeout votes nor the block parts:
\* a received_commit leaves what the entries of the current index alone
\* leave, and leaves both as they were when it processed no such entry
C27_StragglersDropped ==
    node.stale =>
        /\ node.same
        /\ node.alone => node.kept

\* in round 1, with a part and a vote of round 1 already counted, the node
\* processed an entry of round 0 only
C27_Witness ==
    /\ node.stale
    /\ node.alone
    /\ node.kept
    /\ rafts[1].consensused.current_block_idx = 1
    /\ rafts[1].consensused.current_block_complete_timeout_peer_ids # {}
    /\ rafts[1].consensused.current_block_completed_parts # <<>>


(***************************************************************************)
(* C28, C29: the rounds of the storage group                               *)
(***************************************************************************)
\* floor(n/2) + 1 of the storage group
StorageMajority == (Cardinality(StoragePeers) \div 2) + 1

\* C28: the round is ready to store exactly when at least sufficient_majority
\* distinct proposers voted CompleteBlock for the current index and some
\* PartBlock group of the current index holds the extras of at least
\* sufficient_majority distinct proposers
C28_ReadyToStore ==
    /\ rafts[1].consensused.sufficient_majority = StorageMajority
    /\ Storage_has_block_ready_to_store(rafts[1].consensused) <=>
          /\ Cardinality(node.voted) >= StorageMajority
          /\ \E h \in DOMAIN node.extras : Cardinality(node.extras[h]) >= StorageMajority

\* all three nodes voted the timeout of round 0 and two groups hold one
\* extra each: the round is not ready
C28_Witness ==
    /\ node.voted = StoragePeers
    /\ Cardinality(DOMAIN node.extras) = 2
    /\ \A h \in DOMAIN node.extras : Cardinality(node.extras[h]) = 1
    /\ ~Storage_has_block_ready_to_store(rafts[1].consensused)


\* the index is the number of generations, and what the consensused state
\* counts is what was processed for that index since the last generation
StorageRoundCounted ==
    /\ rafts[1].consensused.current_block_idx = node.rounds
    /\ rafts[1].consensused.current_block_complete_timeout_peer_ids = node.voted
    /\ DOMAIN rafts[1].consensused.current_block_completed_parts = DOMAIN node.extras
    /\ \A h \in DOMAIN node.extras :
           DOMAIN rafts[1].consensused.current_block_completed_parts[h].per_node
               = node.extras[h]

\* a step that changes current_block_idx raises it by one and leaves the
\* votes and the parts empty
StorageRoundStep ==
    rafts'[1].consensused.current_block_idx # rafts[1].consensused.current_block_idx =>
        /\ rafts'[1].consensused.current_block_idx
              = rafts[1].consensused.current_block_idx + 1
        /\ rafts'[1].consensused.current_block_complete_timeout_peer_ids = {}
        /\ rafts'[1].consensused.current_block_completed_parts = <<>>

\* C29: generate_complete_block raises current_block_idx by exactly one and
\* empties the timeout votes and the block parts; the index never decreases
\* and nothing counted for a round is counted for the next
C29_RoundAdvance == [](StorageRoundCounted) /\ [][StorageRoundStep]_vars

\* after the first generation, round 1 has counted one vote and a part
C29_Witness ==
    /\ node.rounds = 1
    /\ rafts[1].consensused.current_block_idx = 1
    /\ Cardinality(rafts[1].consensused.current_block_complete_timeout_peer_ids) = 1
    /\ rafts[1].consensused.current_block_completed_parts # <<>>


(***************************************************************************)
(* C30: the branch of resend_trigger_message                               *)
(***************************************************************************)
\* the kinds of the messages the last resend_trigger_message sent
ResentKinds == {msg.kind : msg \in node.last.msgs}

\* C30: resend_trigger_message takes one branch, in this order: the mined
\* block goes to storage again; else, with the partition key set, the
\* partition list and the block go to the cohort again; else, with a mining
\* block, the random number goes to the request list again; else nothing is
\* sent. The branch taken finds the mining block it reads.
C30_ResendPriority ==
    node.last.event = "resend_trigger_message" =>
        /\ ~applied[1].panicked
        /\ IF IsSome(node.current_mined_block)
           THEN node.last.msgs = {StorageSendBlock(Unwrap(node.current_mined_block))}
           ELSE IF IsSome(node.partition_key)
           THEN /\ IsSome(rafts[1].consensused.current_block)
                /\ ResentKinds = {"MineRequest::SendPartitionList", "MineRequest::SendBlock"}
                /\ {msg.to : msg \in node.last.msgs} = node.partition_list.addrs
                /\ node.last.msgs = flood_list_to_partition(node).msgs
                                       \cup flood_block_to_partition(node, rafts[1]).msgs
           ELSE IF IsSome(rafts[1].consensused.current_block)
           THEN /\ ResentKinds = {"MineRequest::SendRandomNum"}
                /\ {msg.to : msg \in node.last.msgs} = node.request_list
                /\ node.last.msgs = flood_rand_num_to_requesters(node, rafts[1]).msgs
           ELSE node.last.msgs = {}

\* with the partition key set and no mined block, the partition list and the
\* mining block were sent to the cohort again
C30_Witness ==
    /\ node.last.event = "resend_trigger_message"
    /\ ~IsSome(node.current_mined_block)
    /\ IsSome(node.partition_key)
    /\ ResentKinds = {"MineRequest::SendPartitionList", "MineRequest::SendBlock"}

(***************************************************************************)
(* The block stored, sent again and sent by others                         *)
(***************************************************************************)
BlockStoredSenders == {StorageAddr, 1, 12}

\* the SendBlockStored of peer was handled: whether the info proposes
\* nothing new, whether the consensused state changed, what was proposed
NodeBlockStoredHandled(peer, info, x) ==
    NodeHandled(x, [Last("SendBlockStored", x.reason) EXCEPT
        !.peer = peer,
        !.repeat = ~propose_block_with_last_info(rafts[1], info).ret,
        !.stale = rafts[1].consensused.tx_current_block_num = Some(info.block_num + 1),
        !.changed = x.r.consensused # rafts[1].consensused,
        !.msgs = x.commits])

NodeReceiveBlockStoredOfAny ==
    /\ IsSome(node.storage_sent)
    /\ \E peer \in BlockStoredSenders :
           NodeBlockStoredHandled(peer, StorageInfo(Unwrap(node.storage_sent)),
               handle_next_event_response(
                   receive_block_stored(node, rafts[1], peer,
                                        StorageInfo(Unwrap(node.storage_sent)))))

\* the SendPoW of the miners: with the nonce 1 the coinbase 7 is a valid
\* proof for block 0 and the coinbase 8 for block 1
StoredNonces == {1}
StoredCoinbases == {7, 8}

NodeReceivePoWOfMiners ==
    \E address \in Miners, block_num \in PowBlockNums,
       nonce \in StoredNonces, coinbase \in StoredCoinbases :
        NodePoWHandled(block_num, PoWBad(address, block_num, nonce, coinbase),
            handle_next_event_response(
                receive_pow(node, rafts[1], address, block_num, nonce, coinbase)))

\* the mining flow of the node over its restarts, with the block stored sent
\* by any peer
StoredNext ==
    \/ NodeReceivePartitionRequest \/ NodeReceivePartitionEntry \/ NodeReceivePoWOfMiners
    \/ NodeReceiveBlockStoredOfAny \/ NodeReceivedCommit \/ NodePeerVote
    \/ NodeRestart

SpecStored == NodeInit /\ [][StoredNext]_vars

\* C31: a SendBlockStored of a peer other than the storage node is answered
\* with the failure 'Received block stored not from our storage peer' and
\* proposes nothing; one of the storage node whose info proposes nothing new
\* leaves the consensused state as it was and the handler completes: it
\* proposes nothing when block_num + 1 is already committed (the trigger
\* message is sent again), and otherwise what it proposes are the
\* uncommitted items of the current block number.
C31_BlockStoredReplay ==
    node.last.event = "SendBlockStored" =>
        /\ node.last.peer # StorageAddr =>
               /\ node.last.reason = "Received block stored not from our storage peer"
               /\ node.last.msgs = <<>>
               /\ ~node.last.changed
        /\ (node.last.peer = StorageAddr /\ node.last.repeat) =>
               /\ ~node.last.changed
               /\ ~applied[1].panicked
               /\ node.last.stale => node.last.msgs = <<>>

(***************************************************************************)
(* The transactions a commit adds to tx_pool                               *)
(***************************************************************************)
\* the transactions the last commit added to the consensused tx_pool
GenTxsEntered == rafts[1].consensused.tx_pool \ node.tx_pool

\* C32: every transaction a commit adds to the consensused tx_pool passed the
\* validity check: it is not a coinbase and every outpoint it spends was in
\* the UTXO set when the commit was processed.
C32_CommittedTxsValid ==
    \A h \in GenTxsEntered :
        /\ ~TxTable[h].coinbase
        /\ SeqToSet(TxTable[h].ins) \subseteq node.base

(***************************************************************************)
(* The size of the generated block                                         *)
(***************************************************************************)
\* the transactions of the block that came from tx_pool, those tx_pool kept
\* and those of the committed druid groups
GenTaken == GenBlockTxs \cap node.tx_pool
GenLeft == rafts[1].consensused.tx_pool
GenDruidTaken == GenBlockTxs \ node.tx_pool

\* the committed druid groups that are in the block, in the order committed
GenInBlock(g) == g \subseteq GenBlockTxs
GenDruidsOfBlock == SelectSeq(node.tx_druid_pool, GenInBlock)

\* the UTXO set tx_pool was cleaned against: the one generate_block found
\* without what the druid groups of the block spent
GenBaseAtCleaning ==
    GenBaseAtGeneration \ UNION {SeqToSet(TxTable[h].ins) : h \in GenDruidTaken}

\* h spends only outpoints of the UTXO set that no transaction of tx_pool
\* before it in hash order spends
GenValidInPool(h) ==
    /\ SeqToSet(TxTable[h].ins) \subseteq GenBaseAtCleaning
    /\ \A g \in node.tx_pool :
           g < h => SeqToSet(TxTable[g].ins) \cap SeqToSet(TxTable[h].ins) = {}

\* the transactions of tx_pool in the block are at most BLOCK_SIZE_IN_TX,
\* they precede in hash order those tx_pool keeps, tx_pool keeps some only
\* behind a full block, and a valid transaction is taken or kept
GenPoolTaken ==
    /\ Cardinality(GenTaken) <= BLOCK_SIZE_IN_TX
    /\ GenLeft \subseteq node.tx_pool \ GenTaken
    /\ \A h \in GenTaken, g \in GenLeft : h < g
    /\ GenLeft # {} => Cardinality(GenTaken) = BLOCK_SIZE_IN_TX
    /\ \A h \in node.tx_pool : GenValidInPool(h) => h \in GenTaken \cup GenLeft
    /\ \A h \in GenTaken \cup GenLeft : SeqToSet(TxTable[h].ins) \subseteq GenBaseAtCleaning

\* C33 as stated: generate_block takes up to BLOCK_SIZE_IN_TX transactions of
\* the valid entries of tx_pool in ascending hash order, the block generated
\* holds no more than BLOCK_SIZE_IN_TX transactions, and every valid
\* transaction not taken stays in tx_pool.
C33_BlockSize ==
    GenBlockDone =>
        /\ GenPoolTaken
        /\ Len(Unwrap(rafts[1].consensused.current_block).transactions) <= BLOCK_SIZE_IN_TX

\* C33 amended: generate_block takes up to BLOCK_SIZE_IN_TX transactions of
\* the valid entries of tx_pool in ascending hash order, and every valid
\* transaction not taken stays in tx_pool; the block generated holds these
\* after the transactions of the valid committed druid groups, which are not
\* counted against BLOCK_SIZE_IN_TX.
C33_BlockSizeAmended ==
    GenBlockDone =>
        /\ GenPoolTaken
        /\ Unwrap(rafts[1].consensused.current_block).transactions
               = FlattenSeq([i \in DOMAIN GenDruidsOfBlock |-> SortedHashes(GenDruidsOfBlock[i])])
                     \o SortedHashes(GenTaken)

\* a block of a druid group and BLOCK_SIZE_IN_TX transactions of tx_pool,
\* generated from a tx_pool that held invalid transactions as well
C33_Witness ==
    /\ GenBlockDone
    /\ GenDruidTaken # {}
    /\ Cardinality(GenTaken) = BLOCK_SIZE_IN_TX
    /\ node.tx_pool \ (GenTaken \cup GenLeft) # {}

(***************************************************************************)
(* The timeout vote of a storage round                                     *)
(***************************************************************************)
\* the step appends a timeout vote of storage node 1 to the log
StorageOwnVoteStep ==
    /\ Len(raft_log') = Len(raft_log) + 1
    /\ raft_log'[Len(raft_log')].key.proposer_id = 1
    /\ raft_log'[Len(raft_log')].item.type = "CompleteBlock"

\* a vote is cast with the timeout armed, disarms it and names the current
\* index; the timeout is armed again only by a generation
StorageTimeoutStep ==
    /\ StorageOwnVoteStep =>
           /\ rafts[1].propose_block_timeout_at
           /\ ~rafts'[1].propose_block_timeout_at
           /\ raft_log'[Len(raft_log')].item.idx = rafts[1].consensused.current_block_idx
           /\ rafts'[1].consensused = rafts[1].consensused
    /\ (~rafts[1].propose_block_timeout_at /\ rafts'[1].propose_block_timeout_at) =>
           /\ rafts'[1].consensused.current_block_idx
                  = rafts[1].consensused.current_block_idx + 1
           /\ node'.own_votes = 0

\* C34: a storage node proposes CompleteBlock(current_block_idx) at most
\* once between two generations of a complete block: the vote is cast with
\* the timeout armed, disarms it and names the index current at that time,
\* and only generate_complete_block arms the timeout again.
C34_TimeoutVoteOnce ==
    /\ [](/\ node.own_votes <= 1
          /\ node.own_votes = 1 => ~rafts[1].propose_block_timeout_at)
    /\ [][StorageTimeoutStep]_vars

\* a generation armed the timeout again and the node, which had proposed
\* before, cast its vote of round 1
C34_Witness ==
    /\ node.rounds = 1
    /\ node.own_votes = 1
    /\ rafts[1].proposed_last_id >= 2
    /\ rafts[1].consensused.current_block_idx = 1
    /\ ~rafts[1].propose_block_timeout_at

(***************************************************************************)
(* The closing of the participant intake                                   *)
(***************************************************************************)
\* the positions of the ParticipantIntakeClosed proposals in the log
IntakeClosedIn(log) ==
    {k \in DOMAIN log : log[k].item.type = "ParticipantIntakeClosed"}

\* a step that proposes ParticipantIntakeClosed is taken with the first
\* participant already in the cohort
IntakeClosedOnExpiry ==
    IntakeClosedIn(raft_log') # IntakeClosedIn(raft_log)
        => participant_len(rafts[1].consensused.first_block_pipeline) >= 1

\* C35: ParticipantIntakeClosed is proposed only on the expiry of the timer
\* the first MiningParticipant of the round armed, that is by a step taken
\* after that participant was added to the cohort, and once per replica per
\* round; later MiningParticipant commits propose nothing and the cohort
\* never grows beyond compute_partition_full_size.
C35_IntakeClosing ==
    /\ [](/\ Cardinality(IntakeClosedIn(raft_log)) <= 1
          /\ participant_len(rafts[1].consensused.first_block_pipeline) <= PartitionFullSize)
    /\ [][IntakeClosedOnExpiry]_vars

(***************************************************************************)
(* The gate of the initial proposal                                        *)
(***************************************************************************)
\* the state of the gate of a ComputeRaft
GateOf(r) ==
    IF IsSome(r.local_initial_proposal) THEN Unwrap(r.local_initial_proposal).kind
    ELSE "None"

\* the positions of the Block items the node proposed in the run key_run
OwnBlocksOfRun(log, key_run) ==
    {k \in DOMAIN log : /\ log[k].key.proposer_id = 1
                        /\ log[k].key.key_run = key_run
                        /\ log[k].item.type = "Block"}

GateRun == rafts[1].proposed_in_flight.key_run

\* the step proposes the first Block item of the run
GateReleased ==
    /\ rafts'[1].proposed_in_flight.key_run = GateRun
    /\ OwnBlocksOfRun(raft_log, GateRun) = {}
    /\ OwnBlocksOfRun(raft_log', GateRun) # {}

\* the first Block item of a run is proposed by the SendBlockStored that
\* finds the gate authorized or open, or by the propose_initial_item that
\* finds a Block item pending; it is the item of the info received, proposed
\* once, and it leaves the gate open with propose_initial_item called
GateReleaseStep ==
    GateReleased =>
        /\ Cardinality(OwnBlocksOfRun(raft_log', GateRun)) = 1
        /\ GateOf(rafts'[1]) = "None"
        /\ node'.first_floods >= 1
        /\ \/ /\ node'.last.event = "SendBlockStored"
              /\ GateOf(rafts[1]) \in {"PendingAuthorized", "None"}
              /\ node.first_floods >= 1
              /\ raft_log'[Len(raft_log')].item
                     = ItemBlock(StorageInfo(Unwrap(node.storage_sent)))
           \/ /\ node'.last.event = "SendPartitionRequest"
              /\ node'.last.reason = "Received first full partition request"
              /\ GateOf(rafts[1]) = "PendingItem"
              /\ raft_log'[Len(raft_log')].item = Unwrap(rafts[1].local_initial_proposal).item

\* a SendBlockStored of the storage node that finds the gate waiting for the
\* item proposes nothing and leaves its info pending; it proposed something
\* new exactly when the pending item changed
GateWaitingStep ==
    (/\ node'.last.event = "SendBlockStored"
     /\ node'.last.peer = StorageAddr
     /\ node' # node
     /\ GateOf(rafts[1]) \in {"PendingAll", "PendingItem"}) =>
        /\ raft_log' = raft_log
        /\ rafts'[1].local_initial_proposal
               = Some(InitialPending("PendingItem",
                                     ItemBlock(StorageInfo(Unwrap(node.storage_sent))),
                                     Some(Unwrap(node.storage_sent).b_num)))
        /\ node'.last.repeat
               <=> rafts'[1].local_initial_proposal = rafts[1].local_initial_proposal

\* C36: the first Block item of a run is proposed only once both a
\* BlockStored info was received from storage and propose_initial_item was
\* called, in either order, and it is proposed once; a BlockStored info that
\* arrives while the gate waits replaces the pending item, and
\* propose_block_with_last_info returns false exactly when the pending item
\* is left as it was. After a snapshot was applied the gate waits for both.
C36_InitialProposalGate ==
    /\ [][GateReleaseStep]_vars
    /\ [][GateWaitingStep]_vars
    /\ [](\A k \in OwnBlocksOfRun(raft_log, GateRun) : node.first_floods >= 1)

\* the node restarted from a snapshot, the info of storage arrived first and
\* the Block item was proposed when the miners were ready
C36_Witness ==
    /\ node.restarts = 1
    /\ rafts[1].consensused_snapshot_applied
    /\ IsSome(rafts[1].snapshot)
    /\ node.last.event = "SendPartitionRequest"
    /\ node.last.reason = "Received first full partition request"
    /\ OwnBlocksOfRun(raft_log, GateRun) # {}

(***************************************************************************)
(* The mining block of a full partition list                               *)
(***************************************************************************)
\* C37: when the partition list becomes full the mining block of the round
\* is present and the floods of the block complete; no PoW is accepted, and
\* no mined block is held for storage, in a round whose partition list is
\* not full.
C37_FullListHasBlock ==
    /\ node.last.event = "SendPartitionEntry" => ~applied[1].panicked
    /\ (node.last.event = "SendPartitionEntry" /\ node.last.reason = "Partition list is full")
           => IsSome(rafts[1].consensused.current_block)
    /\ (node.last.event = "SendPoW" /\ node.last.reason = "Received PoW successfully")
           => IsSome(node.partition_key)
    /\ IsSome(node.current_mined_block) => IsSome(node.partition_key)

(***************************************************************************)
(* The commits that find a complete block ready                            *)
(***************************************************************************)
\* the consensused state after the entries are processed one by one
RECURSIVE StorageApplyAll(_, _)
StorageApplyAll(c, entries) ==
    IF entries = <<>> THEN c
    ELSE StorageApplyAll(Storage_commit_one(c, Head(entries)), Tail(entries))

\* the number of entries the step took from the log
StorageTaken == applied'[1].count - applied[1].count

\* the step takes the first entries of the log, in order and once each: what
\* it does not take stays at the head of the log, before what is proposed
\* meanwhile, and the accumulator is what the entries taken make of it
StorageTakesInOrder ==
    /\ StorageTaken >= 0
    /\ StorageTaken <= Len(raft_log)
    /\ Len(raft_log') >= Len(raft_log) - StorageTaken
    /\ \A i \in 1..(Len(raft_log) - StorageTaken) : raft_log'[i] = raft_log[i + StorageTaken]
    /\ StorageTaken > 0 =>
           rafts'[1].consensused
               = StorageApplyAll(rafts[1].consensused, SubSeq(raft_log, 1, StorageTaken))

\* no prefix of the entries taken left a block ready to store: an entry is
\* never processed while a complete block waits to be generated
StorageNeverWhileReady ==
    \A k \in 0..(StorageTaken - 1) :
        ~Storage_has_block_ready_to_store(
             StorageApplyAll(rafts[1].consensused, SubSeq(raft_log, 1, k)))

\* while a block is ready to store the accumulator changes only by the
\* generation, which advances the index and takes no entry
StorageReadyStep ==
    Storage_has_block_ready_to_store(rafts[1].consensused) =>
        /\ StorageTaken = 0
        /\ \/ rafts'[1].consensused = rafts[1].consensused
           \/ /\ rafts'[1].consensused.current_block_idx
                     = rafts[1].consensused.current_block_idx + 1
              /\ raft_log' = raft_log

VoteHeight(c) ==
    IF IsSome(c.tx_current_block_num) THEN Unwrap(c.tx_current_block_num) + 1 ELSE 0

\* the last commit left the consensused state as it was, apart from the
\* index and term of the last commit
VoteUntouched ==
    node.after = [node.before EXCEPT
                     !.last_committed_raft_idx_and_term =
                         node.after.last_committed_raft_idx_and_term]

\* the last commit applied a block: the number grew by one, and what it
\* added to the UTXO set and to the circulation are the mining transactions
\* of one of the candidates, once
VoteAppliedBlock ==
    /\ VoteHeight(node.after) = VoteHeight(node.before) + 1
    /\ node.ret \in {"FirstBlock", "Block"}
    /\ node.ret = "Block" =>
           \E b \in VoteCandidates :
               /\ b.kind = "Block"
               /\ b.info.block_num + 1 = VoteHeight(node.before)
               /\ node.after.current_circulation
                      = node.before.current_circulation
                            + get_total_coinbase_tokens(b.info.mining_transactions)
               /\ node.after.utxo_set
                      = extend_tracked_utxo_set(node.before.utxo_set,
                                                b.info.mining_transactions)

\* the block number changes by a step of one upwards only
VoteHeightStep ==
    VoteHeight(rafts'[1].consensused) \in
        {VoteHeight(rafts[1].consensused), VoteHeight(rafts[1].consensused) + 1}

\* C39: a committed Block(stored_info) for another block number than
\* tx_current_block_num, and a FirstBlock committed once the number is set,
\* leave the consensused state as it was apart from
\* last_committed_raft_idx_and_term; tx_current_block_num never decreases and
\* grows by one per applied block, and the mining transactions of a stored
\* block enter the UTXO set and current_circulation only with the step that
\* raises the number past that block, hence at most once.
C39_StaleVotes ==
    /\ [](/\ node.stale => VoteUntouched
          /\ VoteHeight(node.after) \in {VoteHeight(node.before), VoteHeight(node.before) + 1}
          /\ (\/ node.after.utxo_set # node.before.utxo_set
              \/ node.after.current_circulation # node.before.current_circulation
              \/ VoteHeight(node.after) # VoteHeight(node.before)) => VoteAppliedBlock)
    /\ [][VoteHeightStep]_vars

\* blocks 0 and 1 were applied and votes for block 2 are being counted when
\* a vote for another block arrives and changes nothing
C39_Witness ==
    /\ node.stale
    /\ node.before.tx_current_block_num = Some(2)
    /\ node.before.utxo_set # TrackedUtxoSet_default
    /\ node.before.current_block_stored_info # {}


(***************************************************************************)
(* The shutdown block over shutdown and restart                            *)
(***************************************************************************)
\* the node handles the next entry of the log and it is a Block proposal
BlockCommitHandled ==
    /\ applied'[1].count = applied[1].count + 1
    /\ applied'[1].count \in DOMAIN raft_log
    /\ raft_log[applied'[1].count].data = "Proposed"
    /\ raft_log[applied'[1].count].item.type = "Block"

\* the consensused state is as it was, apart from the index and term of the
\* last commit
BlockCommitIgnored ==
    rafts'[1].consensused =
        [rafts[1].consensused EXCEPT
            !.last_committed_raft_idx_and_term =
                rafts'[1].consensused.last_committed_raft_idx_and_term]

\* the shutdown block is set aside: the run goes on to its orderly end with
\* the block number at the number of the stored block
ShutdownSetAside ==
    /\ ~applied'[1].panicked
    /\ rafts'[1].consensused.tx_current_block_num
           = Some(raft_log[applied'[1].count].item.info.block_num)
    /\ rafts'[1].consensused.utxo_set = rafts[1].consensused.utxo_set

\* C40: the first time a shutdown Block(info) reaches its threshold, with
\* special_handling None, the node only sets Shutdown and stays at
\* tx_current_block_num = info.block_num, so that the block can be applied
\* once after the restart; within the same run no later Block commit is
\* applied once Shutdown is set.
C40_ShutdownAppliedOnce ==
    [][/\ ShutdownApplied(1) => ShutdownSetAside
       /\ (is_shutdown_on_commit(rafts[1]) /\ BlockCommitHandled) => BlockCommitIgnored]_vars

=============================================================================
